---- MODULE Spec2Model ----
(***************************************************************************)
(* MatchBox: the event orchestrator (src/matchbox.py), the clip extractor  *)
(* (src/local_video_processor.py) and the tunnel relay                     *)
(* (src/pi-server/relay_server.py) as state machines.                      *)
(*                                                                         *)
(* Spec        the orchestrator: /api/start and /api/stop, the monitor     *)
(*             task(s), the upstream events, the switcher and the delayed  *)
(*             clip jobs, on a discrete clock of one second.               *)
(* SpecExtract LocalVideoProcessor.extract_clip from arbitrary clip        *)
(*             directories, match times and buffers, two jobs firing       *)
(*             concurrently on one event loop.                             *)
(* SpecRelay   RelayServer: registration, replacement and proxying.        *)
(***************************************************************************)
EXTENDS Integers, Sequences, FiniteSets, TLC

(* ------------------------------ bounds -------------------------------- *)
MaxMonitors == 2        \* monitor threads the /api/start requests spawn
MaxEvents == 2          \* frames the upstream socket delivers
MaxJobs == 1            \* START_MATCH frames the scoring system sends while clips can be cut
MaxTime == 15           \* the clock stops here
MaxField == 3           \* field numbers an event may carry (0: no field)
MaxRecordings == 1      \* recordings the operator starts in the switcher after time 0
MatchDuration == 1      \* config.match_duration_seconds (scaled down)
PostBuffer == 1         \* config.post_match_buffer_seconds (scaled down)
PreBuffer == 1          \* config.pre_match_buffer_seconds (scaled down)
MaxStart == 2           \* SpecExtract: match starts and recording starts range over 0..MaxStart
MaxPre == 1             \* SpecExtract: the processor's pre_match_buffer ranges over 0..MaxPre
MaxSuffix == 2          \* SpecExtract: clips already there carry suffixes up to _MaxSuffix
MaxTunnels == 2         \* SpecRelay: tunnel connections the relay accepts
MaxRequests == 1        \* SpecRelay: HTTP requests proxied
MaxBrowserWs == 2       \* SpecRelay: browser WebSocket upgrades proxied
MaxProxied == 2         \* SpecProxy: HTTP requests proxied concurrently
MaxAttempts == 7        \* SpecClient: connections the tunnel client attempts
MaxFrames == 2          \* SpecClient: http_request / ws_open frames the relay sends
MaxData == 1            \* SpecClient: ws_data frames the relay sends for one ws_id
MaxWebTime == 2         \* SpecWeb: the clock of the HTTP server stops here
SessionTtl == 1         \* SpecWeb: the cookie's lifetime, 86400 s (scaled down)
MaxFile == 3            \* SpecWeb: the largest clip file, in bytes
MaxProducers == 2       \* SpecStatus: threads that call _notify_status_change
MaxTransitions == 3     \* SpecStatus: status transitions of the core
MaxClients == 2          \* SpecTunnelCore: WSTunnelClient objects start_tunnel creates
MaxSubscribers == 2     \* SpecStatus: /ws/status connections
MaxWorkers == 2         \* SpecSync: threads start_sync starts
SyncInterval == 1       \* SpecSync: config.rsync_interval_seconds, 60 s (scaled down)
MaxNumFields == 4       \* SpecScenes: the number of fields configured ranges over 1..MaxNumFields
MaxRecTime == 45        \* SpecRecording: the clock of the recording monitor stops here
MaxRecSize == 2         \* SpecRecording: the recording file grows up to this size

(* ------------------------- program constants -------------------------- *)
SafetyMargin == 8       \* generate_match_clip_delayed: safety_margin = 8.0
DrainWindow == 5        \* monitor_ftc_websocket: backlog_end_time = time.time() + 5.0
ReplacedCloseCode == 4010       \* handle_tunnel_ws: old_inst.ws.close(code=4010, ...)
InvalidTokenCloseCode == 4001   \* handle_tunnel_ws: ws.close(code=4001, ...)
NormalCloseCode == 1000          \* handle_tunnel_ws: ws.close() with the default code
BadGateway == 502               \* handle_proxy: no instance, or the tunnel raised
GatewayTimeout == 504           \* handle_proxy: asyncio.TimeoutError
InitialRetryDelay == 5          \* _connect_loop: retry_delay = 5
MaxRetryDelay == 60             \* _connect_loop: min(retry_delay * 2, 60)
ProxyErrorStatus == 502         \* _handle_http_request: the status of its error reply
Ok == 200                       \* _serve_clip_file, send_json, _send_login_page
PartialContent == 206           \* _serve_clip_file
Found == 302                    \* _send_redirect
Unauthorized == 401             \* do_POST
NotFound == 404                 \* do_POST, _serve_clip_file
RangeNotSatisfiable == 416      \* _serve_clip_file
MonitorPeriod == 5              \* _monitor_recording: await asyncio.sleep(5)
GrowthWindow == 30              \* is_recording_available: cutoff_time = time.time() - 30

field_scene_mapping == {1, 2}   \* MatchBoxConfig: {1: "Field 1", 2: "Field 2"}

Monitors == 1..MaxMonitors
NoField == 0                    \* Python None / an absent "field" key
\* The frames of the upstream socket: the three types the loop acts on, a JSON object of
\* another type, text that is not JSON (the heartbeat "pong"), and JSON the loop body
\* raises on (not an object, or params that are not an object).
EventTypes == {"SHOW_PREVIEW", "SHOW_MATCH", "START_MATCH", "OTHER", "NOT_JSON", "RAISES"}
Events == [type : EventTypes, field : 0..MaxField]
SwitcherResponses == {"ok", "negative", "exception"}
NoFrame == [type |-> "none", field |-> NoField, resp |-> "none"]

Tunnels == 1..MaxTunnels
Requests == 1..MaxProxied
BrowserWs == 1..MaxBrowserWs
Workers == 1..MaxWorkers
Producers == 1..MaxProducers
Subscribers == 1..MaxSubscribers
TunnelClients == 1..MaxClients
EventCodes == {"E1", "E2"}            \* the event codes clients register and browsers ask for
NoId == "none"                  \* no entry in id_by_event
HttpStatuses == {200, 404}         \* the statuses an http_response frame carries
NoData == [id |-> 0, status |-> 0] \* no result set on a future
Unanswered == [status |-> 0, id |-> 0]  \* handle_proxy has not returned
Aborted == [status |-> -1, id |-> 0]    \* handle_proxy ended with CancelledError: no response
Frames == 1..MaxFrames
FrameIds == {ToString(k) : k \in Frames}  \* the uuid4 strings the relay puts into its frames
FrameTypes == {"http_request", "ws_open"}
NoFrameId == "none"
RelayAnswers == {"registered", "error"}  \* the relay's answers to a register frame

VARIABLES
  now,                    \* time.time(), in seconds
  obsRec,                 \* the switcher's recording: [active, path, start]
  running,                \* MatchBoxCore.running
  obs_ws,                 \* MatchBoxCore.obs_ws is not None
  current_field,          \* MatchBoxCore.current_field (NoField: None)
  local_video_processor,  \* MatchBoxCore.local_video_processor is not None
  lvp_cfg,                \* the processor's [pre, post, dur] (copied at setup)
  ftc_websocket,          \* MatchBoxCore.ftc_websocket: the monitor whose socket it is (0: None)
  pc,                     \* each monitor thread's position in monitor_ftc_websocket
  sock,                   \* each monitor's upstream websocket: none / open / closed
  backlog_end_time,       \* each monitor's local backlog_end_time
  frame,                  \* each monitor's frame in hand: the one recv() returned, and the
                          \* answer the switcher gives if it is asked while handling it
  jobs,                   \* the tasks created for generate_match_clip_delayed, in creation order
  clips_dir,              \* the files of the clips directory: [name, by, mtime]
  current_match_clips,    \* MatchBoxCore.current_match_clips
  index_html,             \* the file names index.html lists
  index_list,             \* the same names in the order index.html lists them
  nEvents,                \* frames received so far
  scene_requests,         \* SetCurrentProgramScene requests sent to the switcher so far
  handled,                \* the frame handled last: repeat (a directive for current_field),
                          \* raised (the body raised on it) or none
  directed,               \* the monitors that have handled a directive for a mapped field
  instances,              \* RelayServer.instances: instance id -> the tunnel whose instance it is (0: no entry)
  id_by_event,            \* RelayServer.id_by_event: event code -> instance id (NoId: no entry)
  tpc,                    \* each tunnel connection's position in handle_tunnel_ws
  tws,                    \* each tunnel socket: none / open / closing / closed
  closed_by,              \* who closed the tunnel socket first: none / relay / peer
  close_code,             \* the code the relay closed the tunnel socket with (0: none)
  t_event,                \* each handler's event_code, once its registration is read
  old_inst,               \* each handler's old_inst (0: none)
  snap,                   \* each handler's list(....browser_ws_connections.values()) for its close loop
  to_close,               \* the part of that list the loop has not closed yet
  registered,             \* the `registered` reply went out on the tunnel
  pending_http,           \* TunnelInstance.pending_http of each tunnel's instance: request ids
  fut,                    \* each request's future: none / pending / result / cancelled
  rpc,                    \* each proxied HTTP request's position in handle_proxy
  rinst,                  \* the instance handle_proxy looked up for the request (0: none)
  result,                 \* the frame set as each future's result: [id, status]
  response,               \* what handle_proxy answered: [status, id of the frame it was built from]
  browser_ws_connections, \* TunnelInstance.browser_ws_connections of each tunnel's instance: ws ids
  bws,                    \* each browser WebSocket: none / open / closed
  bpc,                    \* each browser WebSocket's position in _proxy_ws
  binst,                  \* the instance handle_proxy looked up for the upgrade (0: none)
  c_running,              \* WSTunnelClient._running
  c_connected,            \* WSTunnelClient._connected
  c_ws,                   \* WSTunnelClient._ws: the connection it is (0: None)
  c_open,                 \* the tunnel connection c_ws-th attempt made is open
  cpc,                    \* the position of _connect_loop
  retry_delay,            \* _connect_loop's local retry_delay
  c_attempts,             \* connections attempted so far
  c_fails,                \* sleeps since the last registration (or the start)
  c_answer,               \* the relay's last answer to a register frame
  c_frame,                \* the frames the message loop has read: [type, id, live],
                          \* live: the connection the frame was read from is still self._ws
  hpc,                    \* the position of the task spawned for each frame
  req_id,                 \* each task's local req_id / ws_id
  c_sent,                 \* the frames the client has sent: [type, id, for, status, live],
                          \* live: it went out on the connection its request came in on
  local_ws,               \* the keys of _local_ws_connections
  d_sent,                 \* the ws_data frames the relay has sent for each ws_open frame's id
  d_delivered,            \* those of them passed to the local socket
  ws_close_seen,          \* _handle_ws_close has run for the frame's id
  w_now,                  \* time.time() of the HTTP server
  w_password,             \* config.tunnel_password ("": not set)
  w_file_size,            \* the size of clip.mp4 found by the request being served
  w_req,                  \* the request handled last
  w_resp,                 \* the response to it
  rsync_host,             \* config.rsync_host is set
  rsync_module,           \* config.rsync_module is set
  sync_running,           \* MatchBoxCore.sync_running
  spc,                    \* each sync thread's position in _run_sync_loop
  s_left,                 \* each sync thread's remaining rounds of its sleep loop
  s_ret,                  \* what the last call of start_sync returned: none / true / false
  s_stopped,              \* stop_sync was called during the thread's rsync invocation
  num_fields,             \* the number of fields configured (--num-fields, the keys of the mapping)
  o_scenes,               \* the switcher: the i for which a scene "Field i" exists
  o_input,                \* the switcher: the input "FTC Scoring System Overlay" exists
  o_items,                \* the switcher: the i whose scene "Field i" holds the overlay as an item
  cfg_ret,                \* what the last configure_obs_scenes returned, if the switcher is as it left it
  cfg_created,            \* scene, input and scene-item creation requests it issued
  cfg_clean,              \* it spoke to a switcher of the newer API and no request of it failed
  cfg_second,             \* the run before it returned True (cleanly: "clean") and nothing changed between
  r_now,                  \* time.time() of the recording monitor
  r_exists,               \* recording_path is set and the file exists
  r_size,                 \* the size of the recording file
  last_file_size,         \* LocalVideoProcessor.last_file_size
  file_growth_timestamps, \* LocalVideoProcessor.file_growth_timestamps
  is_monitoring,          \* LocalVideoProcessor.is_monitoring
  r_wake,                 \* the end of _monitor_recording's sleep
  r_result,               \* what the call of is_recording_available in progress returns (none: no call)
  r_growth,               \* when a sample last found the size strictly increased (-1: never)
  r_sampled,              \* when the size was last sampled (-1: never)
  status_version,         \* the status of the core, as the number of transitions it has made
  ppc,                    \* each producer thread's position in _notify_status_change
  p_status,               \* each producer's local status = self.get_status()
  loop_calls,             \* the _broadcast_status_async(status) calls scheduled on the loop, oldest first
  status_clients,         \* WebSocketBroadcaster._status_clients
  ws_state,               \* each subscriber's socket: none / open / closed
  ws_received,            \* the snapshots each subscriber has received, oldest first
  hs_token,               \* RelayServer.token, from --token
  hs_config,              \* the client's MatchBoxConfig: [tunnel_password, event_code, tunnel_allow_admin]
  hs_peer,                \* who dialled /tunnel: the tunnel client, or another program
  hs_pc,                  \* the handshake's position: dialled / sent / answered / handled
  hs_frame,               \* the first frame the relay receives
  hs_reply,               \* the relay's answer frame
  hs_close,               \* the close code the relay closed the socket with (0: open)
  hs_running,             \* WSTunnelClient._running
  hs_connected,            \* WSTunnelClient._connected
  tunnel_client,          \* MatchBoxCore.tunnel_client (0: None)
  relay_url,              \* config.tunnel_relay_url is set
  bc_loop,                \* the web server's broadcaster and its loop exist
  kpc,                    \* each WSTunnelClient's position in _connect_loop
  k_running,              \* each WSTunnelClient's _running
  k_connected,            \* each WSTunnelClient's _connected
  k_ret                   \* what start_tunnel returned last

envVars == <<now, obsRec>>
coreVars == <<running, obs_ws, current_field, local_video_processor, lvp_cfg, ftc_websocket>>
monVars == <<pc, sock, backlog_end_time, frame>>
clipVars == <<jobs, clips_dir, current_match_clips, index_html, index_list>>
seenVars == <<nEvents, scene_requests, handled, directed>>
orchVars == <<envVars, coreVars, monVars, clipVars, seenVars>>
regVars == <<instances, id_by_event>>
tunnelVars == <<tpc, tws, closed_by, close_code, t_event, old_inst, snap, to_close, registered>>
httpVars == <<pending_http, fut, rpc, rinst, result, response>>
bwsVars == <<browser_ws_connections, bws, bpc, binst>>
relayVars == <<regVars, tunnelVars, httpVars, bwsVars>>
loopVars == <<c_running, c_connected, c_ws, c_open, cpc, retry_delay, c_attempts, c_fails, c_answer>>
taskVars == <<c_frame, hpc, req_id, c_sent, local_ws>>
dataVars == <<d_sent, d_delivered, ws_close_seen>>
clientVars == <<loopVars, taskVars, dataVars>>
webVars == <<w_now, w_password, w_file_size, w_req, w_resp>>
syncVars == <<rsync_host, rsync_module, sync_running, spc, s_left, s_ret, s_stopped>>
sceneVars == <<num_fields, o_scenes, o_input, o_items, cfg_ret, cfg_created, cfg_clean, cfg_second>>
recVars == <<r_now, r_exists, r_size, last_file_size, file_growth_timestamps, is_monitoring,
             r_wake, r_result, r_growth, r_sampled>>
statusVars == <<status_version, ppc, p_status, loop_calls, status_clients, ws_state, ws_received>>
hsVars == <<hs_token, hs_config, hs_peer, hs_pc, hs_frame, hs_reply, hs_close, hs_running, hs_connected>>
tcVars == <<tunnel_client, relay_url, bc_loop, kpc, k_running, k_connected, k_ret>>
auxVars == <<syncVars, sceneVars, recVars, statusVars, hsVars, tcVars>>
othersOfSync == <<orchVars, relayVars, clientVars, webVars, sceneVars, recVars, statusVars, hsVars, tcVars>>
othersOfScenes == <<relayVars, clientVars, webVars, syncVars, recVars, statusVars, hsVars, tcVars>>
othersOfRec == <<orchVars, relayVars, clientVars, webVars, syncVars, sceneVars, statusVars, hsVars, tcVars>>
othersOfStatus == <<orchVars, relayVars, clientVars, webVars, syncVars, sceneVars, recVars, hsVars, tcVars>>
othersOfHandshake == <<orchVars, relayVars, clientVars, webVars, syncVars, sceneVars, recVars, statusVars, tcVars>>
othersOfTunnelCore == <<orchVars, relayVars, clientVars, webVars, syncVars, sceneVars, recVars, statusVars, hsVars>>
vars == <<orchVars, relayVars, clientVars, webVars, auxVars>>

(* ------------------------- pure functions ----------------------------- *)
Max(a, b) == IF a >= b THEN a ELSE b

\* Clip times without the clamp at the start of the recording.
calculate_clip_times_unclamped(cfg, match_start_time, recording_start) ==
  LET match_offset_seconds == match_start_time - recording_start
  IN  [clip_start |-> match_offset_seconds - cfg.pre,
       clip_duration |-> cfg.pre + cfg.dur + cfg.post]

\* LocalVideoProcessor.calculate_clip_times with a recording start time given.
calculate_clip_times(cfg, match_start_time, recording_start) ==
  LET match_offset_seconds == match_start_time - recording_start
  IN  [clip_start |-> Max(0, match_offset_seconds - cfg.pre),
       clip_duration |-> cfg.pre + cfg.dur + cfg.post]

\* LocalVideoProcessor.generate_match_filename: "{matchName} - Field {field} - {time_str}"
generate_match_filename(match_info) ==
  <<match_info.name, match_info.field, match_info.T>>

\* f"{match_name}.mp4" (k = 0) and f"{match_name}_{counter}.mp4" (k = counter)
OutputPath(match_name, k) == [base |-> match_name, k |-> k]

FileNames(dir) == {f.name : f \in dir}

\* A collision loop that never runs: the first candidate is kept.
ResolveCollision_keep(dir, match_name, output_path, counter) == output_path

\* extract_clip: counter = 1; while output_path.exists(): output_path = ..._{counter}; counter += 1
RECURSIVE ResolveCollision(_, _, _, _)
ResolveCollision(dir, match_name, output_path, counter) ==
  IF output_path \in FileNames(dir)
    THEN ResolveCollision(dir, match_name, OutputPath(match_name, counter), counter + 1)
    ELSE output_path

ChooseOutputPath(dir, match_info) ==
  LET match_name == generate_match_filename(match_info)
  IN  ResolveCollision(dir, match_name, OutputPath(match_name, 0), 1)

\* get_obs_recording_info: None (FALSE) or [path, start]; callOk: the switcher answers.
get_obs_recording_info(callOk) ==
  IF ~obs_ws \/ ~callOk \/ ~obsRec.active
    THEN [ok |-> FALSE, path |-> 0, start |-> 0]
    ELSE LET output_duration == now - obsRec.start
         IN  [ok |-> TRUE, path |-> obsRec.path, start |-> now - output_duration]

\* A switch_scene that returns True on a negative response.
switch_scene_negative_ok(field_number, resp) ==
  IF field_number \notin field_scene_mapping THEN [req |-> FALSE, ok |-> FALSE]
  ELSE IF ~obs_ws THEN [req |-> FALSE, ok |-> FALSE]
  ELSE [req |-> TRUE, ok |-> (resp # "exception")]

\* switch_scene(field_number): whether a request went out, and the bool returned.
switch_scene(field_number, resp) ==
  IF field_number \notin field_scene_mapping THEN [req |-> FALSE, ok |-> FALSE]
  ELSE IF ~obs_ws THEN [req |-> FALSE, ok |-> FALSE]
  ELSE [req |-> TRUE, ok |-> (resp = "ok")]

\* A wait without the safety margin.
total_wait_time_no_margin == MatchDuration + PostBuffer

\* generate_match_clip_delayed: total_wait_time
total_wait_time == MatchDuration + PostBuffer + SafetyMargin

(* ------------------------------ Init ---------------------------------- *)
InitCore ==
  /\ running = FALSE
  /\ obs_ws = FALSE
  /\ current_field = NoField
  /\ local_video_processor = FALSE
  /\ lvp_cfg = [pre |-> PreBuffer, post |-> PostBuffer, dur |-> MatchDuration]
  /\ ftc_websocket = 0
  /\ pc = [m \in Monitors |-> "idle"]
  /\ sock = [m \in Monitors |-> "none"]
  /\ backlog_end_time = [m \in Monitors |-> 0]
  /\ frame = [m \in Monitors |-> NoFrame]
  /\ jobs = <<>>
  /\ clips_dir = {}
  /\ current_match_clips = <<>>
  /\ index_html = {}
  /\ index_list = <<>>
  /\ nEvents = 0
  /\ scene_requests = 0
  /\ handled = "none"
  /\ directed = {}

\* RelayServer.__init__, and no connection yet.
InitRelay ==
  /\ instances = [e \in EventCodes |-> 0]
  /\ id_by_event = [e \in EventCodes |-> NoId]
  /\ tpc = [h \in Tunnels |-> "none"]
  /\ tws = [h \in Tunnels |-> "none"]
  /\ closed_by = [h \in Tunnels |-> "none"]
  /\ close_code = [h \in Tunnels |-> 0]
  /\ t_event = [h \in Tunnels |-> NoId]
  /\ old_inst = [h \in Tunnels |-> 0]
  /\ snap = [h \in Tunnels |-> {}]
  /\ to_close = [h \in Tunnels |-> {}]
  /\ registered = [h \in Tunnels |-> FALSE]
  /\ pending_http = [h \in Tunnels |-> {}]
  /\ fut = [r \in Requests |-> "none"]
  /\ rpc = [r \in Requests |-> "none"]
  /\ rinst = [r \in Requests |-> 0]
  /\ result = [r \in Requests |-> NoData]
  /\ response = [r \in Requests |-> Unanswered]
  /\ browser_ws_connections = [h \in Tunnels |-> {}]
  /\ bws = [w \in BrowserWs |-> "none"]
  /\ bpc = [w \in BrowserWs |-> "none"]
  /\ binst = [w \in BrowserWs |-> 0]

(* --------------------------- the HTTP server ---------------------------- *)
Localhost == "127.0.0.1"
Peers == {Localhost, "10.0.0.7"}          \* client_address[0]
Methods == {"GET", "POST", "PUT"}
LoginPath == <<"admin", "_login">>        \* the path /admin/_login, by segments
AuthPath == <<"admin", "_auth">>
ClipPath == <<"clip.mp4">>
Paths == {LoginPath, AuthPath, ClipPath, <<"admin">>, <<"admin", "app.js">>, <<"adminx">>,
          <<"api", "status">>, <<"api", "stop">>, <<"obs-web", "index.html">>}
Passwords == {"", "pw"}                   \* config.tunnel_password
InstanceIds == {"_local", "other"}        \* the first part of a cookie value

\* The text of a cookie's second part: a decimal number as int() prints it, the same
\* number with a leading zero, or text that is no number.
ExpiryValues == 0..(MaxWebTime + SessionTtl)
JunkStr == [n |-> 0, form |-> "junk"]
ExpiryStrs == {[n |-> k, form |-> f] : k \in ExpiryValues, f \in {"plain", "padded"}} \cup {JunkStr}

\* int(expiry_str): the number, or ValueError (-1).
ParseInt(str) == IF str.form = "junk" THEN -1 ELSE str.n

\* str(n)
Str(n) == [n |-> n, form |-> "plain"]

\* hmac.new(key, payload, sha256).hexdigest(): equal exactly for equal key and payload.
Hmac(key, instance_id, expiry_str) == [key |-> key, id |-> instance_id, exp |-> expiry_str]

\* _get_session_secret: derived from config.tunnel_password or 'matchbox'.
SessionSecret(password) == IF password = "" THEN "matchbox" ELSE password

NoSig == Hmac("none", "", JunkStr)
NoCookie == [kind |-> "none", instance_id |-> "", expiry_str |-> JunkStr, sig |-> NoSig]
Malformed == [kind |-> "malformed", instance_id |-> "", expiry_str |-> JunkStr, sig |-> NoSig]

\* The mb_session values requests present: three parts, signed under either secret
\* for any payload, or not signed at all; no cookie; a value that is not three parts.
Signatures == {Hmac(SessionSecret(pw), i, e) : pw \in Passwords, i \in InstanceIds, e \in ExpiryStrs}
               \cup {NoSig}
Cookies == {[kind |-> "triple", instance_id |-> i, expiry_str |-> e, sig |-> g] :
              i \in InstanceIds, e \in ExpiryStrs, g \in Signatures} \cup {NoCookie, Malformed}

\* _make_session_cookie
MakeSessionCookie(t, password) ==
  [kind |-> "triple", instance_id |-> "_local", expiry_str |-> Str(t + SessionTtl),
   sig |-> Hmac(SessionSecret(password), "_local", Str(t + SessionTtl))]

\* A check that signs the parsed number instead of the text received (for comparison).
ExpectedSig_normalised(cookie, password) ==
  Hmac(SessionSecret(password), cookie.instance_id, Str(ParseInt(cookie.expiry_str)))

\* expected = hmac.new(secret, f"{instance_id}:{expiry_str}".encode(), sha256).hexdigest()
ExpectedSig(cookie, password) ==
  Hmac(SessionSecret(password), cookie.instance_id, cookie.expiry_str)

\* A check that leaves the expiry out (for comparison).
CheckAuth_no_expiry(peer, cookie, t, password) ==
  \/ peer = Localhost
  \/ cookie.kind = "triple" /\ cookie.sig = ExpectedSig(cookie, password)

\* _check_auth
CheckAuth(peer, cookie, t, password) ==
  IF peer = Localhost THEN TRUE
  ELSE IF cookie.kind = "none" THEN FALSE
  ELSE IF cookie.kind # "triple" THEN FALSE
  ELSE IF ParseInt(cookie.expiry_str) = -1 THEN FALSE
  ELSE IF t > ParseInt(cookie.expiry_str) THEN FALSE
  ELSE cookie.sig = ExpectedSig(cookie, password)

\* path.startswith('/admin') or path.startswith('/api/') or path.startswith('/obs-web')
GetChecksAuth(path) ==
  \/ path[1] \in {"admin", "adminx"}
  \/ Len(path) >= 2 /\ path[1] = "api"
  \/ path[1] = "obs-web"

\* path.startswith('/api/')
PostChecksAuth(path) == Len(path) >= 2 /\ path[1] = "api"

\* Content-Range values: bytes first-last/total, bytes */total, or no such header.
NoRange == [first |-> -1, last |-> -1, total |-> -1]
StarRange(total) == [first |-> -1, last |-> -1, total |-> total]
RangeKinds == {"none", "a-b", "a-", "-b", "junk"}
Ranges == {[kind |-> k, a |-> a, b |-> b] : k \in {"a-b"}, a \in 0..(MaxFile + 1), b \in 0..(MaxFile + 1)}
            \cup {[kind |-> k, a |-> a, b |-> 0] : k \in {"a-", "-b"}, a \in 0..(MaxFile + 1)}
            \cup {[kind |-> k, a |-> 0, b |-> 0] : k \in {"none", "junk"}}
NoRangeHeader == [kind |-> "none", a |-> 0, b |-> 0]
File(N) == [i \in 1..N |-> i]             \* the bytes of a file of size N
ErrorPage == <<-1>>                       \* the HTML body send_error writes

Plain(status, served) ==
  [status |-> status, served |-> served, set_cookie |-> NoCookie, content_range |-> NoRange,
   content_length |-> 0, body |-> <<>>, after_body |-> NoRange]

\* _serve_clip_file for the existing file clip.mp4 of size N.  On a range that cannot
\* be satisfied send_error(416) writes the whole response, headers and body; the
\* send_header('Content-Range') and end_headers() that follow write after that body.
ServeClipFile(N, range) ==
  LET start == IF range.kind = "-b" THEN 0 ELSE range.a
      end == IF range.kind = "a-" THEN N - 1 ELSE IF range.kind = "-b" THEN range.a ELSE range.b
  IN  IF range.kind \in {"none", "junk"}
        THEN [Plain(Ok, "clip_file") EXCEPT !.content_length = N, !.body = File(N)]
      ELSE IF start >= N \/ end >= N \/ start > end
        THEN [Plain(RangeNotSatisfiable, "none") EXCEPT !.content_length = Len(ErrorPage),
                !.body = ErrorPage, !.after_body = StarRange(N)]
      ELSE [Plain(PartialContent, "clip_file") EXCEPT
              !.content_range = [first |-> start, last |-> end, total |-> N],
              !.content_length = end - start + 1,
              !.body = SubSeq(File(N), start + 1, end + 1)]

\* do_GET
DoGet(req, N, authed) ==
  IF req.path = LoginPath THEN Plain(Ok, "login_page")
  ELSE IF GetChecksAuth(req.path) /\ ~authed THEN Plain(Found, "none")
  ELSE IF req.path = <<"api", "status">> THEN Plain(Ok, "api_status")
  ELSE IF req.path[1] = "obs-web" THEN Plain(Ok, "obs_web_static")
  ELSE IF req.path[1] = "admin" THEN Plain(Ok, "admin_static")
  ELSE IF req.path = ClipPath THEN ServeClipFile(N, req.range)
  ELSE Plain(NotFound, "none")

\* do_POST, and do_PUT which calls it
DoPost(req, t, password, authed) ==
  IF req.path = AuthPath
    THEN IF req.password_ok
           THEN [Plain(Found, "login") EXCEPT !.set_cookie = MakeSessionCookie(t, password)]
           ELSE Plain(Ok, "login_page")
  ELSE IF PostChecksAuth(req.path) /\ ~authed THEN Plain(Unauthorized, "none")
  ELSE IF req.path = <<"api", "stop">> THEN Plain(Ok, "api_stop")
  ELSE Plain(NotFound, "none")

NoRequest ==
  [peer |-> Localhost, method |-> "none", path |-> <<>>, cookie |-> NoCookie,
   range |-> NoRangeHeader, password_ok |-> FALSE, at |-> 0, via |-> "none"]

InitWeb ==
  /\ w_now = 0
  /\ w_password = ""
  /\ w_file_size = 0
  /\ w_req = NoRequest
  /\ w_resp = Plain(0, "none")

\* MatchBoxCore.__init__: no sync thread.
InitSync ==
  /\ rsync_host = FALSE
  /\ rsync_module = FALSE
  /\ sync_running = FALSE
  /\ spc = [w \in Workers |-> "none"]
  /\ s_left = [w \in Workers |-> 0]
  /\ s_ret = "none"
  /\ s_stopped = [w \in Workers |-> FALSE]

\* A switcher without field scenes and overlay; configure_obs_scenes has not run.
InitScenes ==
  /\ num_fields = 2
  /\ o_scenes = {}
  /\ o_input = FALSE
  /\ o_items = {}
  /\ cfg_ret = "none"
  /\ cfg_created = 0
  /\ cfg_clean = FALSE
  /\ cfg_second = "no"

\* LocalVideoProcessor.__init__
InitRec ==
  /\ r_now = 0
  /\ r_exists = FALSE
  /\ r_size = 0
  /\ last_file_size = 0
  /\ file_growth_timestamps = {}
  /\ is_monitoring = FALSE
  /\ r_wake = 0
  /\ r_result = "none"
  /\ r_growth = -1
  /\ r_sampled = -1

\* The core and the broadcaster after ensure_web_server: no subscriber, nothing scheduled.
InitStatus ==
  /\ status_version = 0
  /\ ppc = [p \in Producers |-> "idle"]
  /\ p_status = [p \in Producers |-> 0]
  /\ loop_calls = <<>>
  /\ status_clients = {}
  /\ ws_state = [c \in Subscribers |-> "none"]
  /\ ws_received = [c \in Subscribers |-> <<>>]

\* The registration handshake: the relay's --token, the client's configuration, and
\* the frames the two exchange.
Secrets == {"s1", "s2"}                   \* values of --token and of tunnel_password
HsPeers == {"client", "foreign"}
Absent == "None"                          \* dict.get of a key the frame does not have
NoHsFrame == [type |-> "none"]
Configs == [tunnel_password : {""} \cup Secrets, event_code : {"", "E1"},
            tunnel_allow_admin : BOOLEAN]
\* what a program other than the tunnel client may send as its first frame
ForeignFrames == [type : {"register", "ping"}, event_code : EventCodes, token : Secrets]

\* reg_data.get(key)
Get(reg_data, key) == IF key \in DOMAIN reg_data THEN reg_data[key] ELSE Absent

\* The registration the client sends: json.dumps({...}) in _connect_loop.
RegisterFrame(config) ==
  [type |-> "register",
   event_code |-> IF config.event_code = "" THEN "default" ELSE config.event_code,
   password |-> config.tunnel_password,
   allow_admin |-> config.tunnel_allow_admin]

\* handle_tunnel: reg_data.get('token') != self.token is false
TokenValid(reg_data, token) == Get(reg_data, "token") = token

InitHandshake ==
  /\ hs_token = "s1"
  /\ hs_config = [tunnel_password |-> "", event_code |-> "", tunnel_allow_admin |-> TRUE]
  /\ hs_peer = "client"
  /\ hs_pc = "idle"
  /\ hs_frame = NoHsFrame
  /\ hs_reply = NoHsFrame
  /\ hs_close = 0
  /\ hs_running = FALSE
  /\ hs_connected = FALSE

\* MatchBoxCore.__init__: no tunnel client.
InitTunnelCore ==
  /\ tunnel_client = 0
  /\ relay_url = TRUE
  /\ bc_loop = TRUE
  /\ kpc = [c \in TunnelClients |-> "none"]
  /\ k_running = [c \in TunnelClients |-> FALSE]
  /\ k_connected = [c \in TunnelClients |-> FALSE]
  /\ k_ret = "none"

InitAux ==
  /\ InitSync
  /\ InitScenes
  /\ InitRec
  /\ InitStatus
  /\ InitTunnelCore
  /\ InitHandshake

\* WSTunnelClient.__init__, and nothing received yet.
InitClient ==
  /\ c_running = FALSE
  /\ c_connected = FALSE
  /\ c_ws = 0
  /\ c_open = FALSE
  /\ cpc = "idle"
  /\ retry_delay = InitialRetryDelay
  /\ c_attempts = 0
  /\ c_fails = 0
  /\ c_answer = "none"
  /\ c_frame = [f \in Frames |-> [type |-> "none", id |-> NoFrameId, live |-> FALSE]]
  /\ hpc = [f \in Frames |-> "none"]
  /\ req_id = [f \in Frames |-> NoFrameId]
  /\ c_sent = {}
  /\ local_ws = {}
  /\ d_sent = [f \in Frames |-> 0]
  /\ d_delivered = [f \in Frames |-> 0]
  /\ ws_close_seen = [f \in Frames |-> FALSE]

Init ==
  /\ now = 0
  /\ obsRec \in {[active |-> FALSE, path |-> 0, start |-> 0],
                 [active |-> TRUE, path |-> 0, start |-> 0]}
  /\ InitCore
  /\ InitRelay
  /\ InitClient
  /\ InitWeb
  /\ InitAux

(* --------------------------- environment ------------------------------ *)
\* One second passes.  The program reads the clock only to compare it with
\* backlog_end_time and with the end of a job's sleep, so the seconds that pass while
\* no monitor drains and no job sleeps are not modelled.
Tick ==
  /\ now < MaxTime
  /\ \/ \E m \in Monitors : pc[m] = "drain"
     \/ \E j \in 1..Len(jobs) : jobs[j].st = "sleeping"
  /\ now' = now + 1
  /\ UNCHANGED <<obsRec, coreVars, monVars, clipVars, seenVars>>
  /\ UNCHANGED <<relayVars, clientVars, webVars, auxVars>>

\* The operator starts a recording in the switcher: a new file, started now.
ObsStartRecording ==
  /\ ~obsRec.active
  /\ obsRec.path < MaxRecordings
  /\ obsRec' = [active |-> TRUE, path |-> obsRec.path + 1, start |-> now]
  /\ UNCHANGED <<now, coreVars, monVars, clipVars, seenVars>>
  /\ UNCHANGED <<relayVars, clientVars, webVars, auxVars>>

ObsStopRecording ==
  /\ obsRec.active
  /\ obsRec' = [obsRec EXCEPT !.active = FALSE, !.start = 0]
  /\ UNCHANGED <<now, coreVars, monVars, clipVars, seenVars>>
  /\ UNCHANGED <<relayVars, clientVars, webVars, auxVars>>

(* ---------------------- /api/start and /api/stop ---------------------- *)
\* do_POST /api/start: refused while core.running; else a thread that runs
\* monitor_ftc_websocket on a new event loop.
ApiStart ==
  /\ ~running
  /\ \E m \in Monitors :
       /\ pc[m] = "idle"
       /\ \A k \in Monitors : k < m => pc[k] # "idle"
       /\ pc' = [pc EXCEPT ![m] = "starting"]
  /\ UNCHANGED <<envVars, coreVars, sock, backlog_end_time, frame, clipVars, seenVars>>
  /\ UNCHANGED <<relayVars, clientVars, webVars, auxVars>>

\* The first /api/start of a run.
ApiStartOnce ==
  /\ \A m \in Monitors : pc[m] = "idle"
  /\ ApiStart

\* An /api/start after the monitors started before it have ended.
ApiStartAfterEnd ==
  /\ \A m \in Monitors : pc[m] \in {"idle", "done"}
  /\ ApiStart

\* do_POST /api/stop: core.running = False, nothing else.
ApiStop ==
  /\ running
  /\ running' = FALSE
  /\ UNCHANGED <<envVars, obs_ws, current_field, local_video_processor, lvp_cfg,
                 ftc_websocket, monVars, clipVars, seenVars>>
  /\ UNCHANGED <<relayVars, clientVars, webVars, auxVars>>

(* -------------------------- stop_monitoring --------------------------- *)
\* stop_monitoring, run by monitor m's finally; then the async-with closes m's own
\* socket, monitor_ftc_websocket returns and run_until_complete ends m's loop.
\* discOk: obs_ws.disconnect() does not raise (obs_ws = None follows it in the try).
StopMonitoring(m, discOk) ==
  /\ running' = FALSE
  /\ sock' = [k \in Monitors |->
                IF k = m /\ sock[k] = "open" THEN "closed"
                ELSE IF k = ftc_websocket /\ sock[k] = "open" THEN "closed"
                ELSE sock[k]]
  /\ obs_ws' = IF obs_ws /\ discOk THEN FALSE ELSE obs_ws
  /\ local_video_processor' = FALSE
  /\ pc' = [pc EXCEPT ![m] = "done"]
  /\ backlog_end_time' = [backlog_end_time EXCEPT ![m] = 0]
  /\ UNCHANGED <<current_field, lvp_cfg, ftc_websocket, frame>>

(* ----------------------- monitor_ftc_websocket ------------------------ *)
\* connect_to_obs, ensure_web_server, setup_local_video_processor, running = True.
MonSetup(m) ==
  /\ pc[m] = "starting"
  /\ \E connected \in BOOLEAN, callOk \in BOOLEAN :
       /\ obs_ws' = TRUE
       /\ IF ~connected
            THEN /\ pc' = [pc EXCEPT ![m] = "done"]
                 /\ UNCHANGED <<running, local_video_processor>>
            ELSE /\ pc' = [pc EXCEPT ![m] = "connecting"]
                 /\ running' = TRUE
                 /\ local_video_processor' =
                      IF callOk /\ obsRec.active THEN TRUE ELSE local_video_processor
  /\ UNCHANGED <<envVars, current_field, lvp_cfg, ftc_websocket, sock, backlog_end_time,
                 frame, clipVars, seenVars>>
  /\ UNCHANGED <<relayVars, clientVars, webVars, auxVars>>

\* websockets.client.connect(ftc_ws_url): the socket opens and draining starts, or
\* the connect raises and the finally runs stop_monitoring.
MonConnect(m) ==
  /\ pc[m] = "connecting"
  /\ \/ /\ pc' = [pc EXCEPT ![m] = "drain"]
        /\ sock' = [sock EXCEPT ![m] = "open"]
        /\ ftc_websocket' = m
        /\ backlog_end_time' = [backlog_end_time EXCEPT ![m] = now + DrainWindow]
        /\ UNCHANGED <<running, obs_ws, current_field, local_video_processor, lvp_cfg, frame>>
     \/ \E discOk \in BOOLEAN : StopMonitoring(m, discOk)
  /\ UNCHANGED <<envVars, clipVars, seenVars>>
  /\ UNCHANGED <<relayVars, clientVars, webVars, auxVars>>

\* A drain loop that asks the switcher for a scene on every frame.
DrainFrame_switching(m, ev) ==
  /\ scene_requests' = scene_requests + 1
  /\ UNCHANGED <<coreVars, monVars, clipVars, handled, directed>>

\* The drain loop's body for one frame: backlog_count += 1, the message discarded.
DrainFrame(m, ev) ==
  /\ UNCHANGED <<coreVars, monVars, clipVars, scene_requests, handled, directed>>

\* The drain loop: a frame received is counted and discarded.  The loop is entered
\* while time.time() < backlog_end_time; its recv waits at most 0.5 s more.
MonDrainRecv(m) ==
  /\ pc[m] = "drain"
  /\ sock[m] = "open"
  /\ now <= backlog_end_time[m]
  /\ nEvents < MaxEvents
  /\ nEvents' = nEvents + 1
  /\ \E ev \in Events : DrainFrame(m, ev)
  /\ UNCHANGED envVars
  /\ UNCHANGED <<relayVars, clientVars, webVars, auxVars>>

MonDrainEnd(m) ==
  /\ pc[m] = "drain"
  /\ now >= backlog_end_time[m]
  /\ pc' = [pc EXCEPT ![m] = "loop"]
  /\ backlog_end_time' = [backlog_end_time EXCEPT ![m] = 0]
  /\ UNCHANGED <<envVars, coreVars, sock, frame, clipVars, seenVars>>
  /\ UNCHANGED <<relayVars, clientVars, webVars, auxVars>>

\* while self.running: ... ; leaving the loop runs the finally.
MonLoopCheck(m) ==
  /\ pc[m] = "loop"
  /\ IF running
       THEN /\ pc' = [pc EXCEPT ![m] = "recv"]
            /\ UNCHANGED <<coreVars, sock, backlog_end_time, frame>>
       ELSE \E discOk \in BOOLEAN : StopMonitoring(m, discOk)
  /\ UNCHANGED <<envVars, clipVars, seenVars>>
  /\ UNCHANGED <<relayVars, clientVars, webVars, auxVars>>

\* asyncio.wait_for(websocket.recv(), timeout=1.0) times out: continue.
MonRecvTimeout(m) ==
  /\ pc[m] = "recv"
  /\ pc' = [pc EXCEPT ![m] = "loop"]
  /\ UNCHANGED <<envVars, coreVars, sock, backlog_end_time, frame, clipVars, seenVars>>
  /\ UNCHANGED <<relayVars, clientVars, webVars, auxVars>>

NoPath == OutputPath(<<"", 0, 0>>, 0)

\* The task asyncio.create_task(generate_match_clip_delayed(match_info)) makes: the
\* match_info (matchName, field, start_timestamp) and the time the sleep ends.
NewJob(m, ev) ==
  [owner |-> m, name |-> "Q1", field |-> ev.field, T |-> now,
   wake |-> now + total_wait_time, st |-> "sleeping", log |-> "none",
   rpath |-> 0, rstart |-> 0, clip_start |-> 0, clip_duration |-> 0, out |-> NoPath]

\* message = await asyncio.wait_for(websocket.recv(), timeout=1.0) returns a frame.
MonRecv(m) ==
  /\ pc[m] = "recv"
  /\ sock[m] = "open"
  /\ nEvents < MaxEvents
  /\ \E ev \in Events, resp \in SwitcherResponses :
       /\ ev.type = "START_MATCH" => Len(jobs) < MaxJobs
       /\ ev.type \in {"NOT_JSON", "RAISES"} => (ev.field = NoField /\ resp = "ok")
       /\ frame' = [frame EXCEPT ![m] = [type |-> ev.type, field |-> ev.field, resp |-> resp]]
  /\ nEvents' = nEvents + 1
  /\ pc' = [pc EXCEPT ![m] = "handle"]
  /\ UNCHANGED <<envVars, coreVars, sock, backlog_end_time, clipVars, scene_requests, handled,
                 directed>>
  /\ UNCHANGED <<relayVars, clientVars, webVars, auxVars>>

\* A main loop body that schedules the task without looking at the processor.
HandleFrame_unguarded(m, ev) ==
  LET show == ev.type \in {"SHOW_PREVIEW", "SHOW_MATCH"}
      call == show /\ ev.field # NoField /\ ev.field # current_field
      res == IF call THEN switch_scene(ev.field, ev.resp) ELSE [req |-> FALSE, ok |-> FALSE]
      sched == ev.type = "START_MATCH"
  IN  /\ current_field' = IF call /\ res.ok THEN ev.field ELSE current_field
      /\ scene_requests' = scene_requests + (IF res.req THEN 1 ELSE 0)
      /\ jobs' = IF sched THEN Append(jobs, NewJob(m, ev)) ELSE jobs

\* A main loop body that asks the switcher on every directive that names a field.
HandleFrame_every_directive(m, ev) ==
  LET show == ev.type \in {"SHOW_PREVIEW", "SHOW_MATCH"}
      call == show /\ ev.field # NoField
      res == IF call THEN switch_scene(ev.field, ev.resp) ELSE [req |-> FALSE, ok |-> FALSE]
      sched == ev.type = "START_MATCH" /\ local_video_processor
  IN  /\ current_field' = IF call /\ res.ok THEN ev.field ELSE current_field
      /\ scene_requests' = scene_requests + (IF res.req THEN 1 ELSE 0)
      /\ jobs' = IF sched THEN Append(jobs, NewJob(m, ev)) ELSE jobs

\* The body of the main loop for the frame in hand.
HandleFrame(m, ev) ==
  LET show == ev.type \in {"SHOW_PREVIEW", "SHOW_MATCH"}
      call == show /\ ev.field # NoField /\ ev.field # current_field
      res == IF call THEN switch_scene(ev.field, ev.resp) ELSE [req |-> FALSE, ok |-> FALSE]
      sched == ev.type = "START_MATCH" /\ local_video_processor
  IN  /\ current_field' = IF call /\ res.ok THEN ev.field ELSE current_field
      /\ scene_requests' = scene_requests + (IF res.req THEN 1 ELSE 0)
      /\ jobs' = IF sched THEN Append(jobs, NewJob(m, ev)) ELSE jobs

\* What the loop body raises on the frame: json.loads on text that is not JSON, or
\* data.get(...) / match_info[...] = ... on JSON of another shape.
Raised(ev) ==
  IF ev.type = "NOT_JSON" THEN "JSONDecodeError"
  ELSE IF ev.type = "RAISES" THEN "Exception"
  ELSE "none"

\* Handlers that let every exception leave the loop while running (for comparison).
Reraised_any(exc, isRunning) == exc # "none" /\ isRunning

\* The except clauses of the main loop: TimeoutError continues, JSONDecodeError and
\* Exception are logged, ConnectionClosed is raised again if self.running.
Reraised(exc, isRunning) == exc = "ConnectionClosed" /\ isRunning

\* The frame in hand is handled: the body runs, or raises; an exception raised again
\* leaves the async-with and the finally runs stop_monitoring.
MonHandle(m) ==
  /\ pc[m] = "handle"
  /\ IF Reraised(Raised(frame[m]), running)
       THEN /\ \E discOk \in BOOLEAN : StopMonitoring(m, discOk)
            /\ UNCHANGED <<jobs, scene_requests>>
       ELSE /\ IF Raised(frame[m]) = "none"
                 THEN HandleFrame(m, frame[m])
                 ELSE UNCHANGED <<current_field, scene_requests, jobs>>
            /\ frame' = [frame EXCEPT ![m] = NoFrame]
            /\ pc' = [pc EXCEPT ![m] = "loop"]
            /\ UNCHANGED <<running, obs_ws, local_video_processor, lvp_cfg, ftc_websocket,
                           sock, backlog_end_time>>
  /\ handled' = IF Raised(frame[m]) # "none" THEN "raised"
                ELSE IF /\ frame[m].type \in {"SHOW_PREVIEW", "SHOW_MATCH"}
                        /\ frame[m].field # NoField
                        /\ frame[m].field = current_field THEN "repeat"
                ELSE "none"
  /\ directed' = IF /\ frame[m].type \in {"SHOW_PREVIEW", "SHOW_MATCH"}
                    /\ frame[m].field \in field_scene_mapping
                  THEN directed \cup {m} ELSE directed
  /\ UNCHANGED <<envVars, clips_dir, current_match_clips, index_html, index_list, nEvents>>
  /\ UNCHANGED <<relayVars, clientVars, webVars, auxVars>>

\* The upstream connection is lost (or the socket was closed under the monitor):
\* recv raises ConnectionClosed.  In the drain loop it leaves the async-with; in the
\* main loop it is re-raised if self.running and swallowed otherwise.
MonConnectionClosed(m) ==
  /\ pc[m] \in {"drain", "recv"}
  /\ IF pc[m] = "drain" \/ Reraised("ConnectionClosed", running)
       THEN \E discOk \in BOOLEAN : StopMonitoring(m, discOk)
       ELSE /\ pc' = [pc EXCEPT ![m] = "loop"]
            /\ sock' = [sock EXCEPT ![m] = "closed"]
            /\ UNCHANGED <<coreVars, backlog_end_time, frame>>
  /\ UNCHANGED <<envVars, clipVars, seenVars>>
  /\ UNCHANGED <<relayVars, clientVars, webVars, auxVars>>

(* ----------------------------- clip jobs ------------------------------ *)
\* A task runs only while the event loop it was created on runs: the loop of the
\* monitor thread, which run_until_complete leaves when the monitor returns.
LoopAlive(m) == pc[m] \notin {"idle", "starting", "done"}

SetJob(j, r) == [jobs EXCEPT ![j] = r]

\* asyncio.sleep(total_wait_time) is over: generate_match_clip up to the await of
\* the encoder.  fileOk: the recording file exists on disk.
JobFire(j) ==
  /\ jobs[j].st = "sleeping"
  /\ LoopAlive(jobs[j].owner)
  /\ now >= jobs[j].wake
  /\ \E callOk \in BOOLEAN, fileOk \in BOOLEAN :
       LET info == get_obs_recording_info(callOk)
           t == calculate_clip_times(lvp_cfg, jobs[j].T, info.start)
           out == ChooseOutputPath(clips_dir, jobs[j])
       IN  jobs' = SetJob(j,
             IF ~local_video_processor
               THEN [jobs[j] EXCEPT !.st = "failed", !.log = "processor is None"]
             ELSE IF ~info.ok
               THEN [jobs[j] EXCEPT !.st = "failed", !.log = "no recording info"]
             ELSE IF ~fileOk
               THEN [jobs[j] EXCEPT !.st = "failed", !.log = "recording path does not exist",
                                    !.rpath = info.path, !.rstart = info.start]
             ELSE [jobs[j] EXCEPT !.st = "ffmpeg",
                                  !.rpath = info.path, !.rstart = info.start,
                                  !.clip_start = t.clip_start,
                                  !.clip_duration = t.clip_duration,
                                  !.out = out])
  /\ UNCHANGED <<envVars, coreVars, monVars, clips_dir, current_match_clips, index_html,
                 index_list, seenVars>>
  /\ UNCHANGED <<relayVars, clientVars, webVars, auxVars>>

\* ffmpeg -y ... output_path: on exit code 0 the file is written, whatever was there.
WriteClip(dir, j) ==
  {f \in dir : f.name # jobs[j].out} \cup {[name |-> jobs[j].out, by |-> j, mtime |-> now]}

\* _scan_video_files: video_files.sort(key=lambda f: f.stat().st_mtime, reverse=True).
\* Files of one mtime come in the order iterdir() gave them, which is any order.
RECURSIVE NewestFirst(_)
NewestFirst(files) ==
  IF files = {} THEN {<<>>}
  ELSE UNION {{<<f.name>> \o rest : rest \in NewestFirst(files \ {f})} :
                f \in {g \in files : \A h \in files : g.mtime >= h.mtime}}


\* A completion that writes the index from a scan taken when the encoder started.
JobFfmpegDone_early_scan(j) ==
  /\ jobs[j].st = "ffmpeg"
  /\ LoopAlive(jobs[j].owner)
  /\ \E exitOk \in BOOLEAN, created \in BOOLEAN :
       /\ clips_dir' = IF created THEN WriteClip(clips_dir, j) ELSE clips_dir
       /\ IF exitOk /\ jobs[j].out \in FileNames(clips_dir')
            THEN /\ jobs' = SetJob(j, [jobs[j] EXCEPT !.st = "done"])
                 /\ current_match_clips' = Append(current_match_clips, jobs[j].out)
                 /\ index_html' = FileNames(clips_dir)
                 /\ index_list' \in NewestFirst(clips_dir)
            ELSE /\ jobs' = SetJob(j, [jobs[j] EXCEPT
                                        !.st = "failed",
                                        !.log = IF exitOk THEN "failed to create clip"
                                                ELSE "ffmpeg failed"])
                 /\ UNCHANGED <<current_match_clips, index_html, index_list>>
  /\ UNCHANGED <<envVars, coreVars, monVars, seenVars>>
  /\ UNCHANGED <<relayVars, clientVars, webVars, auxVars>>

\* A completion that lists whatever the encoder left, without testing clip_path.
JobFfmpegDone_lists_any(j) ==
  /\ jobs[j].st = "ffmpeg"
  /\ LoopAlive(jobs[j].owner)
  /\ \E exitOk \in BOOLEAN, created \in BOOLEAN :
       /\ clips_dir' = IF created THEN WriteClip(clips_dir, j) ELSE clips_dir
       /\ jobs' = SetJob(j, [jobs[j] EXCEPT
                               !.st = IF exitOk /\ jobs[j].out \in FileNames(clips_dir')
                                      THEN "done" ELSE "failed"])
       /\ current_match_clips' = Append(current_match_clips, jobs[j].out)
       /\ index_html' = FileNames(clips_dir')
       /\ index_list' \in NewestFirst(clips_dir')
  /\ UNCHANGED <<envVars, coreVars, monVars, seenVars>>
  /\ UNCHANGED <<relayVars, clientVars, webVars, auxVars>>

\* The encoder exits with code 0 or not, having written its output file or not:
\* extract_clip returns the path if `success and output_path.exists()` and None
\* otherwise; on a path the clip is appended and index.html rewritten from a scan of
\* the directory, on None the failure is logged.
JobFfmpegDone(j) ==
  /\ jobs[j].st = "ffmpeg"
  /\ LoopAlive(jobs[j].owner)
  /\ \E exitOk \in BOOLEAN, created \in BOOLEAN :
       /\ clips_dir' = IF created THEN WriteClip(clips_dir, j) ELSE clips_dir
       /\ IF exitOk /\ jobs[j].out \in FileNames(clips_dir')
            THEN /\ jobs' = SetJob(j, [jobs[j] EXCEPT !.st = "done"])
                 /\ current_match_clips' = Append(current_match_clips, jobs[j].out)
                 /\ index_html' = FileNames(clips_dir')
                 /\ index_list' \in NewestFirst(clips_dir')
            ELSE /\ jobs' = SetJob(j, [jobs[j] EXCEPT
                                        !.st = "failed",
                                        !.log = IF exitOk THEN "failed to create clip"
                                                ELSE "ffmpeg failed"])
                 /\ UNCHANGED <<current_match_clips, index_html, index_list>>
  /\ UNCHANGED <<envVars, coreVars, monVars, seenVars>>
  /\ UNCHANGED <<relayVars, clientVars, webVars, auxVars>>

(* ------------------------------ the relay ------------------------------ *)
\* for future in list(inst.pending_http.values()): if not future.done(): future.cancel()
\* A replacement that leaves the futures alone (for comparison).
CancelPending_skipped(o) == fut

CancelPending(o) ==
  [r \in Requests |-> IF r \in pending_http[o] /\ fut[r] = "pending" THEN "cancelled" ELSE fut[r]]

\* self.instances[instance_id] = instance; self.id_by_event[event_code] = instance_id;
\* await ws.send_json({'type': 'registered', ...}): the reply goes out if the socket is
\* open; if it is not, send_json raises and the handler goes to its finally, as it
\* does when the message loop ends.  insts, ids: the registry the installation starts from.
Install(h, e, insts, ids) ==
  /\ instances' = [insts EXCEPT ![e] = h]
  /\ id_by_event' = [ids EXCEPT ![e] = e]
  /\ registered' = [registered EXCEPT ![h] = (tws[h] = "open")]
  /\ tpc' = [tpc EXCEPT ![h] = "loop"]

\* The replacement after its loop over the browser sockets: the connections cleared,
\* the futures cancelled and cleared, old_inst.ws.close(code=4010) called.  On an open
\* socket the close frame goes out and the handler waits for the close to complete; on
\* a socket already closed, close() returns at once and the installation follows.
EvictRest(h, e, o, insts, ids) ==
  /\ browser_ws_connections' = [browser_ws_connections EXCEPT ![o] = {}]
  /\ fut' = CancelPending(o)
  /\ pending_http' = [pending_http EXCEPT ![o] = {}]
  /\ IF tws[o] = "open"
       THEN /\ tws' = [tws EXCEPT ![o] = "closing"]
            /\ closed_by' = [closed_by EXCEPT ![o] = "relay"]
            /\ close_code' = [close_code EXCEPT ![o] = ReplacedCloseCode]
            /\ tpc' = [tpc EXCEPT ![h] = "evict_tunnel"]
            /\ instances' = insts
            /\ id_by_event' = ids
            /\ UNCHANGED registered
       ELSE /\ Install(h, e, insts, ids)
            /\ UNCHANGED <<tws, closed_by, close_code>>

\* A client connects to /tunnel: ws.prepare, then the wait for the first message.
TunnelConnect(h) ==
  /\ tpc[h] = "none"
  /\ \A k \in Tunnels : k < h => tpc[k] # "none"
  /\ tpc' = [tpc EXCEPT ![h] = "await_reg"]
  /\ tws' = [tws EXCEPT ![h] = "open"]
  /\ UNCHANGED <<regVars, closed_by, close_code, t_event, old_inst, snap, to_close,
                 registered, httpVars, bwsVars>>
  /\ UNCHANGED <<orchVars, clientVars, webVars, auxVars>>

\* The first message is a register frame.  A wrong token: error frame, close(4001).
\* Otherwise the instance registered for the event code, if any, is taken out of the
\* registry and torn down, up to the first await; then the new one is installed.
TunnelRegister(h) ==
  /\ tpc[h] = "await_reg"
  /\ tws[h] = "open"
  /\ \E e \in EventCodes, tokenOk \in BOOLEAN :
       IF ~tokenOk
         THEN /\ tws' = [tws EXCEPT ![h] = "closed"]
              /\ closed_by' = [closed_by EXCEPT ![h] = "relay"]
              /\ close_code' = [close_code EXCEPT ![h] = InvalidTokenCloseCode]
              /\ tpc' = [tpc EXCEPT ![h] = "done"]
              /\ UNCHANGED <<regVars, t_event, old_inst, snap, to_close, registered,
                             httpVars, bwsVars>>
         ELSE LET old_id == id_by_event[e]
                  hasOld == old_id # NoId /\ instances[old_id] # 0
                  o == instances[old_id]
                  insts == [instances EXCEPT ![old_id] = 0]
                  ids == [id_by_event EXCEPT ![e] = NoId]
              IN  /\ t_event' = [t_event EXCEPT ![h] = e]
                  /\ IF ~hasOld
                       THEN /\ Install(h, e, instances, id_by_event)
                            /\ UNCHANGED <<tws, closed_by, close_code, old_inst, snap,
                                           to_close, httpVars, browser_ws_connections>>
                     ELSE IF browser_ws_connections[o] # {}
                       THEN /\ instances' = insts
                            /\ id_by_event' = ids
                            /\ old_inst' = [old_inst EXCEPT ![h] = o]
                            /\ snap' = [snap EXCEPT ![h] = browser_ws_connections[o]]
                            /\ to_close' = [to_close EXCEPT ![h] = browser_ws_connections[o]]
                            /\ tpc' = [tpc EXCEPT ![h] = "evict_ws"]
                            /\ UNCHANGED <<tws, closed_by, close_code, registered, httpVars,
                                           browser_ws_connections>>
                     ELSE /\ old_inst' = [old_inst EXCEPT ![h] = o]
                          /\ EvictRest(h, e, o, insts, ids)
                          /\ UNCHANGED <<snap, to_close, rpc, rinst, result, response>>
                  /\ UNCHANGED <<bws, bpc, binst>>
  /\ UNCHANGED <<orchVars, clientVars, webVars, auxVars>>

\* await browser_ws.close() of the replacement's loop returns for one socket; after the
\* last one the replacement goes on to its next await.
EvictCloseWs(h) ==
  /\ tpc[h] = "evict_ws"
  /\ \E w \in to_close[h] :
       /\ bws' = [bws EXCEPT ![w] = "closed"]
       /\ to_close' = [to_close EXCEPT ![h] = @ \ {w}]
       /\ IF to_close[h] = {w}
            THEN /\ EvictRest(h, t_event[h], old_inst[h], instances, id_by_event)
                 /\ UNCHANGED <<rpc, rinst, result, response>>
            ELSE UNCHANGED <<regVars, tpc, tws, closed_by, close_code, registered, httpVars,
                             browser_ws_connections>>
  /\ UNCHANGED <<t_event, old_inst, snap, bpc, binst>>
  /\ UNCHANGED <<orchVars, clientVars, webVars, auxVars>>

\* await old_inst.ws.close(code=4010) returns: the old socket is closed; the new
\* instance is installed and the registered reply sent.
EvictTunnelClosed(h) ==
  /\ tpc[h] = "evict_tunnel"
  /\ tws' = [tws EXCEPT ![old_inst[h]] = "closed"]
  /\ Install(h, t_event[h], instances, id_by_event)
  /\ UNCHANGED <<closed_by, close_code, t_event, old_inst, snap, to_close, httpVars, bwsVars>>
  /\ UNCHANGED <<orchVars, clientVars, webVars, auxVars>>

\* The client closes its tunnel socket, or the connection drops.
TunnelPeerClose(h) ==
  /\ tws[h] = "open"
  /\ tws' = [tws EXCEPT ![h] = "closed"]
  /\ closed_by' = [closed_by EXCEPT ![h] = "peer"]
  /\ UNCHANGED <<regVars, tpc, close_code, t_event, old_inst, snap, to_close, registered,
                 httpVars, bwsVars>>
  /\ UNCHANGED <<orchVars, clientVars, webVars, auxVars>>

\* A lookup by arrival order: the oldest pending request's future (for comparison).
PopFuture_oldest(h, data) ==
  IF pending_http[h] = {} THEN 0
  ELSE CHOOSE r \in pending_http[h] : \A q \in pending_http[h] : r <= q

\* req_id = str(data.get('id', '')); future = instance.pending_http.pop(req_id, None):
\* the future the frame's id names, whichever request is the oldest.
PopFuture(h, data) == IF data.id \in pending_http[h] THEN data.id ELSE 0

\* The message loop reads an http_response frame data = [id, status]: the future of
\* that id is popped and, if there is one and it is not done, given the frame as result.
TunnelHttpResponse(h, data) ==
  /\ tpc[h] = "loop"
  /\ tws[h] = "open"
  /\ LET r == PopFuture(h, data)
     IN  IF r = 0
           THEN UNCHANGED <<pending_http, fut, result>>
           ELSE /\ pending_http' = [pending_http EXCEPT ![h] = @ \ {r}]
                /\ IF fut[r] = "pending"
                     THEN /\ fut' = [fut EXCEPT ![r] = "result"]
                          /\ result' = [result EXCEPT ![r] = data]
                     ELSE UNCHANGED <<fut, result>>
  /\ UNCHANGED <<regVars, tunnelVars, rpc, rinst, response, bwsVars>>
  /\ UNCHANGED <<orchVars, clientVars, webVars, auxVars>>

\* The message loop reads a ws_close or a ws_error frame for ws id w: the browser
\* socket is popped and, if there was one, closed.
TunnelWsClose(h, w) ==
  /\ tpc[h] = "loop"
  /\ tws[h] = "open"
  /\ browser_ws_connections' = [browser_ws_connections EXCEPT ![h] = @ \ {w}]
  /\ bws' = [bws EXCEPT ![w] = IF w \in browser_ws_connections[h] THEN "closed" ELSE @]
  /\ UNCHANGED <<regVars, tunnelVars, httpVars, bpc, binst>>
  /\ UNCHANGED <<orchVars, clientVars, webVars, auxVars>>

\* The message loop reads a ws_data frame for ws id w and browser_ws.send_str raises
\* (the browser is gone): the browser socket is popped, and not closed by the relay.
TunnelWsDataFails(h, w) ==
  /\ tpc[h] = "loop"
  /\ tws[h] = "open"
  /\ w \in browser_ws_connections[h]
  /\ bws[w] = "closed"
  /\ browser_ws_connections' = [browser_ws_connections EXCEPT ![h] = @ \ {w}]
  /\ UNCHANGED <<regVars, tunnelVars, httpVars, bws, bpc, binst>>
  /\ UNCHANGED <<orchVars, clientVars, webVars, auxVars>>

\* A finally that pops the instance and leaves the event code's entry (for comparison).
FinallyRest_keeps_event(h) ==
  /\ browser_ws_connections' = [browser_ws_connections EXCEPT ![h] = {}]
  /\ instances' = [instances EXCEPT ![t_event[h]] = 0]
  /\ UNCHANGED id_by_event
  /\ tpc' = [tpc EXCEPT ![h] = "done"]

\* The end of the finally of handle_tunnel_ws: the connections cleared, and
\* self.instances.pop(instance.instance_id, None); self.id_by_event.pop(event_code, None).
FinallyRest(h) ==
  /\ browser_ws_connections' = [browser_ws_connections EXCEPT ![h] = {}]
  /\ instances' = [instances EXCEPT ![t_event[h]] = 0]
  /\ id_by_event' = [id_by_event EXCEPT ![t_event[h]] = NoId]
  /\ tpc' = [tpc EXCEPT ![h] = "done"]

\* The tunnel socket is closing or closed: the message loop ends (or send_json of the
\* registered reply raised) and the finally starts: the futures cancelled and cleared,
\* then the loop over the browser sockets, up to its first await.
TunnelLoopEnd(h) ==
  /\ tpc[h] = "loop"
  /\ tws[h] # "open"
  /\ fut' = CancelPending(h)
  /\ pending_http' = [pending_http EXCEPT ![h] = {}]
  /\ snap' = [snap EXCEPT ![h] = browser_ws_connections[h]]
  /\ to_close' = [to_close EXCEPT ![h] = browser_ws_connections[h]]
  /\ IF browser_ws_connections[h] = {}
       THEN FinallyRest(h)
       ELSE /\ tpc' = [tpc EXCEPT ![h] = "finally_ws"]
            /\ UNCHANGED <<regVars, browser_ws_connections>>
  /\ UNCHANGED <<tws, closed_by, close_code, t_event, old_inst, registered, rpc, rinst,
                 result, response, bws, bpc, binst>>
  /\ UNCHANGED <<orchVars, clientVars, webVars, auxVars>>

\* await browser_ws.close() of the finally's loop returns for one socket.
FinallyCloseWs(h) ==
  /\ tpc[h] = "finally_ws"
  /\ \E w \in to_close[h] :
       /\ bws' = [bws EXCEPT ![w] = "closed"]
       /\ to_close' = [to_close EXCEPT ![h] = @ \ {w}]
       /\ IF to_close[h] = {w}
            THEN FinallyRest(h)
            ELSE UNCHANGED <<regVars, tpc, browser_ws_connections>>
  /\ UNCHANGED <<tws, closed_by, close_code, t_event, old_inst, snap, registered, httpVars,
                 bpc, binst>>
  /\ UNCHANGED <<orchVars, clientVars, webVars, auxVars>>

\* handle_proxy for a plain request to /{e}/...: no instance, 502; else the handler
\* holds the instance and awaits request.read().
ProxyStart(r) ==
  /\ rpc[r] = "none"
  /\ \A k \in Requests : k < r => rpc[k] # "none"
  /\ \E e \in EventCodes :
       IF instances[e] = 0
         THEN /\ rpc' = [rpc EXCEPT ![r] = "done"]
              /\ response' = [response EXCEPT ![r] = [status |-> BadGateway, id |-> 0]]
              /\ UNCHANGED rinst
         ELSE /\ rpc' = [rpc EXCEPT ![r] = "reading"]
              /\ rinst' = [rinst EXCEPT ![r] = instances[e]]
              /\ UNCHANGED response
  /\ UNCHANGED <<regVars, tunnelVars, pending_http, fut, result, bwsVars>>
  /\ UNCHANGED <<orchVars, clientVars, webVars, auxVars>>

\* The body is read: the future is put into the instance's pending_http and the
\* http_request frame sent.  On a socket that is not open send_json raises: the
\* future is popped again and the answer is 502.
ProxySend(r) ==
  /\ rpc[r] = "reading"
  /\ IF tws[rinst[r]] = "open"
       THEN /\ pending_http' = [pending_http EXCEPT ![rinst[r]] = @ \cup {r}]
            /\ fut' = [fut EXCEPT ![r] = "pending"]
            /\ rpc' = [rpc EXCEPT ![r] = "waiting"]
            /\ UNCHANGED response
       ELSE /\ rpc' = [rpc EXCEPT ![r] = "done"]
            /\ response' = [response EXCEPT ![r] = [status |-> BadGateway, id |-> 0]]
            /\ UNCHANGED <<pending_http, fut>>
  /\ UNCHANGED <<regVars, tunnelVars, rinst, result, bwsVars>>
  /\ UNCHANGED <<orchVars, clientVars, webVars, auxVars>>

\* A handler that leaves its future in the table when it times out (for comparison).
ProxyReturn_no_pop(r) ==
  /\ rpc[r] = "waiting"
  /\ rpc' = [rpc EXCEPT ![r] = "done"]
  /\ fut' = [fut EXCEPT ![r] = IF @ = "pending" THEN "cancelled" ELSE @]
  /\ response' = [response EXCEPT ![r] =
                    IF fut[r] = "result" THEN [status |-> result[r].status, id |-> result[r].id]
                    ELSE IF fut[r] = "cancelled" THEN Aborted
                    ELSE [status |-> GatewayTimeout, id |-> 0]]
  /\ UNCHANGED <<regVars, tunnelVars, pending_http, rinst, result, bwsVars>>
  /\ UNCHANGED <<orchVars, clientVars, webVars, auxVars>>

\* resp_data = await asyncio.wait_for(future, timeout=30).  The future has a result:
\* the answer carries its status and body.  The future was cancelled by a replacement
\* or by the tunnel handler's finally: wait_for raises CancelledError, which neither
\* except clause catches (it is not an Exception), and the handler ends without a
\* response.  Neither within 30 seconds: wait_for cancels the future and raises
\* TimeoutError; the future is popped and the answer is 504.
ProxyReturn(r) ==
  /\ rpc[r] = "waiting"
  /\ rpc' = [rpc EXCEPT ![r] = "done"]
  /\ IF fut[r] = "result"
       THEN /\ response' = [response EXCEPT ![r] =
                              [status |-> result[r].status, id |-> result[r].id]]
            /\ UNCHANGED <<pending_http, fut>>
     ELSE IF fut[r] = "cancelled"
       THEN /\ response' = [response EXCEPT ![r] = Aborted]
            /\ UNCHANGED <<pending_http, fut>>
       ELSE /\ fut' = [fut EXCEPT ![r] = "cancelled"]
            /\ pending_http' = [pending_http EXCEPT ![rinst[r]] = @ \ {r}]
            /\ response' = [response EXCEPT ![r] = [status |-> GatewayTimeout, id |-> 0]]
  /\ UNCHANGED <<regVars, tunnelVars, rinst, result, bwsVars>>
  /\ UNCHANGED <<orchVars, clientVars, webVars, auxVars>>

\* handle_proxy for a WebSocket upgrade to /{e}/...: no instance, 502; else _proxy_ws
\* with the instance, which awaits browser_ws.prepare(request).
WsStart(w) ==
  /\ bpc[w] = "none"
  /\ \A k \in BrowserWs : k < w => bpc[k] # "none"
  /\ \E e \in EventCodes :
       IF instances[e] = 0
         THEN /\ bpc' = [bpc EXCEPT ![w] = "done"]
              /\ UNCHANGED binst
         ELSE /\ bpc' = [bpc EXCEPT ![w] = "preparing"]
              /\ binst' = [binst EXCEPT ![w] = instances[e]]
  /\ UNCHANGED <<regVars, tunnelVars, httpVars, browser_ws_connections, bws>>
  /\ UNCHANGED <<orchVars, clientVars, webVars, auxVars>>

\* prepare returns: the socket is put into the instance's browser_ws_connections and
\* the ws_open frame sent.  On a socket that is not open send_json raises: the finally
\* pops the browser socket, _proxy_ws returns and the server closes the connection.
WsPrepared(w) ==
  /\ bpc[w] = "preparing"
  /\ IF tws[binst[w]] = "open"
       THEN /\ browser_ws_connections' = [browser_ws_connections EXCEPT ![binst[w]] = @ \cup {w}]
            /\ bws' = [bws EXCEPT ![w] = "open"]
            /\ bpc' = [bpc EXCEPT ![w] = "loop"]
       ELSE /\ bws' = [bws EXCEPT ![w] = "closed"]
            /\ bpc' = [bpc EXCEPT ![w] = "done"]
            /\ UNCHANGED browser_ws_connections
  /\ UNCHANGED <<regVars, tunnelVars, httpVars, binst>>
  /\ UNCHANGED <<orchVars, clientVars, webVars, auxVars>>

\* The browser closes its WebSocket, or its connection drops.
WsPeerClose(w) ==
  /\ bws[w] = "open"
  /\ bws' = [bws EXCEPT ![w] = "closed"]
  /\ UNCHANGED <<regVars, tunnelVars, httpVars, browser_ws_connections, bpc, binst>>
  /\ UNCHANGED <<orchVars, clientVars, webVars, auxVars>>

\* The loop over the browser's messages ends: the socket is closed (by the browser or
\* by the relay), or a frame of the browser could not be forwarded because the tunnel
\* socket is not open.  The finally pops the socket, _proxy_ws returns and the server
\* closes the connection.
WsLoopEnd(w) ==
  /\ bpc[w] = "loop"
  /\ bws[w] = "closed" \/ tws[binst[w]] # "open"
  /\ browser_ws_connections' = [browser_ws_connections EXCEPT ![binst[w]] = @ \ {w}]
  /\ bws' = [bws EXCEPT ![w] = "closed"]
  /\ bpc' = [bpc EXCEPT ![w] = "done"]
  /\ UNCHANGED <<regVars, tunnelVars, httpVars, binst>>
  /\ UNCHANGED <<orchVars, clientVars, webVars, auxVars>>

InitRelayOnly ==
  /\ now = 0
  /\ obsRec = [active |-> FALSE, path |-> 0, start |-> 0]
  /\ InitCore
  /\ InitRelay
  /\ InitClient
  /\ InitWeb
  /\ InitAux

NextRelay ==
  \/ \E h \in Tunnels : TunnelConnect(h)
  \/ \E h \in Tunnels : TunnelRegister(h)
  \/ \E h \in Tunnels : EvictCloseWs(h)
  \/ \E h \in Tunnels : EvictTunnelClosed(h)
  \/ \E h \in Tunnels : TunnelPeerClose(h)
  \/ \E h \in Tunnels, r \in 1..MaxRequests, st \in HttpStatuses :
       TunnelHttpResponse(h, [id |-> r, status |-> st])
  \/ \E h \in Tunnels, w \in BrowserWs : TunnelWsClose(h, w)
  \/ \E h \in Tunnels, w \in BrowserWs : TunnelWsDataFails(h, w)
  \/ \E h \in Tunnels : TunnelLoopEnd(h)
  \/ \E h \in Tunnels : FinallyCloseWs(h)
  \/ \E r \in 1..MaxRequests : ProxyStart(r)
  \/ \E r \in 1..MaxRequests : ProxySend(r)
  \/ \E r \in 1..MaxRequests : ProxyReturn(r)
  \/ \E w \in BrowserWs : WsStart(w)
  \/ \E w \in BrowserWs : WsPrepared(w)
  \/ \E w \in BrowserWs : WsPeerClose(w)
  \/ \E w \in BrowserWs : WsLoopEnd(w)

SpecRelay == InitRelayOnly /\ [][NextRelay]_vars

\* The relay with its tunnels and plain HTTP requests only (no WebSocket upgrade).
NextProxy ==
  \/ \E h \in Tunnels : TunnelConnect(h)
  \/ \E h \in Tunnels : TunnelRegister(h)
  \/ \E h \in Tunnels : EvictTunnelClosed(h)
  \/ \E h \in Tunnels : TunnelPeerClose(h)
  \/ \E h \in Tunnels, r \in Requests, st \in HttpStatuses :
       TunnelHttpResponse(h, [id |-> r, status |-> st])
  \/ \E h \in Tunnels : TunnelLoopEnd(h)
  \/ \E r \in Requests : ProxyStart(r)
  \/ \E r \in Requests : ProxySend(r)
  \/ \E r \in Requests : ProxyReturn(r)

SpecProxy == InitRelayOnly /\ [][NextProxy]_vars

\* The timeout of wait_for fires, and the handler's task is scheduled: a waiting
\* handler returns.
FairProxy == \A r \in Requests : WF_vars(ProxyReturn(r))

SpecProxyLive == SpecProxy /\ FairProxy

(* --------------------------- the tunnel client -------------------------- *)
Min(a, b) == IF a <= b THEN a ELSE b

\* A delay that keeps doubling (for comparison).
NextDelay_uncapped(d) == d * 2

\* retry_delay = min(retry_delay * 2, 60)
NextDelay(d) == Min(d * 2, MaxRetryDelay)

\* The frame read last by the message loop.
\* str(uuid.uuid4()) on the relay: an id that no frame read on this connection
\* carries.  The ids are interchangeable, so the first unused one is taken.
FreshId == ToString(CHOOSE k \in Frames :
                      /\ \A j \in Frames : c_frame[j].id # ToString(k)
                      /\ \A i \in 1..(k - 1) : \E j \in Frames : c_frame[j].id = ToString(i))

LatestFrame == CHOOSE f \in Frames :
                 /\ c_frame[f].type # "none"
                 /\ \A k \in Frames : c_frame[k].type # "none" => k <= f

\* An id kept in one place for all tasks: that of the frame read last (for comparison).
FrameId_latest(f) == req_id[LatestFrame]

\* req_id = msg['id'] / ws_id = msg['id']: a local of the task handling the frame.
FrameId(f) == req_id[f]

\* if self._ws: await self._ws.send(...): the frame goes out on the current tunnel
\* socket; without one nothing is sent, and on a closed one send raises.
Send(fr) ==
  IF c_ws # 0 /\ c_open
    THEN c_sent \cup {[type |-> fr.type, id |-> fr.id, for |-> fr.for, status |-> fr.status,
                       live |-> c_frame[fr.for].live]}
    ELSE c_sent

\* self._ws stops being the connection the frames read so far came in on.
Detached == [f \in Frames |-> [c_frame[f] EXCEPT !.live = FALSE]]

\* After the try of _connect_loop: _connected = False, _ws = None, the local sockets
\* closed and cleared; then the sleep if the client still runs, else the loop ends.
Cleanup ==
  /\ c_connected' = FALSE
  /\ c_ws' = 0
  /\ c_open' = FALSE
  /\ local_ws' = {}
  /\ c_frame' = Detached
  /\ IF c_running
       THEN /\ cpc' = "sleeping"
            /\ c_fails' = c_fails + 1
       ELSE /\ cpc' = "ended"
            /\ UNCHANGED c_fails

\* start() with a relay URL configured.
ClientStart ==
  /\ cpc = "idle"
  /\ c_running' = TRUE
  /\ cpc' = "connecting"
  /\ UNCHANGED <<c_connected, c_ws, c_open, retry_delay, c_attempts, c_fails, c_answer, taskVars>>
  /\ UNCHANGED <<orchVars, relayVars, webVars, auxVars, dataVars>>

\* stop(), from another thread.
ClientStop ==
  /\ cpc # "idle"
  /\ c_running
  /\ c_running' = FALSE
  /\ c_connected' = FALSE
  /\ local_ws' = {}
  /\ c_ws' = 0
  /\ c_open' = FALSE
  /\ c_frame' = Detached
  /\ UNCHANGED <<cpc, retry_delay, c_attempts, c_fails, c_answer, hpc, req_id, c_sent>>
  /\ UNCHANGED <<orchVars, relayVars, webVars, auxVars, dataVars>>

\* while self._running: the loop ends, or websockets.client.connect(ws_url) is awaited.
ClientConnect ==
  /\ cpc = "connecting"
  /\ IF ~c_running
       THEN /\ cpc' = "ended"
            /\ UNCHANGED c_attempts
       ELSE /\ c_attempts < MaxAttempts
            /\ c_attempts' = c_attempts + 1
            /\ cpc' = "dialing"
  /\ UNCHANGED <<c_running, c_connected, c_ws, c_open, retry_delay, c_fails, c_answer,
                 taskVars>>
  /\ UNCHANGED <<orchVars, relayVars, webVars, auxVars, dataVars>>

\* The awaited connect returns: self._ws = ws and the register frame is sent.  A
\* connection that cannot be made, or a send that fails, raises.
ClientConnected ==
  /\ cpc = "dialing"
  /\ \E ok \in BOOLEAN :
       IF ok
         THEN /\ c_ws' = c_attempts
              /\ c_open' = TRUE
              /\ cpc' = "registering"
              /\ UNCHANGED <<c_connected, c_fails, local_ws, c_frame>>
         ELSE Cleanup
  /\ UNCHANGED <<c_running, retry_delay, c_attempts, c_answer, hpc, req_id, c_sent>>
  /\ UNCHANGED <<orchVars, relayVars, webVars, auxVars, dataVars>>

\* A client that takes the error answer for a failed connection (for comparison).
ClientAnswer_retries ==
  /\ cpc = "registering"
  /\ c_open
  /\ \E a \in RelayAnswers :
       /\ c_answer' = a
       /\ IF a = "registered"
            THEN /\ c_connected' = TRUE
                 /\ retry_delay' = InitialRetryDelay
                 /\ c_fails' = 0
                 /\ cpc' = "loop"
                 /\ UNCHANGED <<c_running, c_open, c_ws, local_ws, c_frame>>
            ELSE /\ Cleanup
                 /\ UNCHANGED <<c_running, retry_delay>>
  /\ UNCHANGED <<c_attempts, hpc, req_id, c_sent>>
  /\ UNCHANGED <<orchVars, relayVars, webVars, auxVars, dataVars>>

\* resp = json.loads(await ws.recv()): error stops the client for good, registered
\* makes it connected and resets the delay; the message loop follows unless it returned.
ClientAnswer ==
  /\ cpc = "registering"
  /\ c_open
  /\ \E a \in RelayAnswers :
       /\ c_answer' = a
       /\ IF a = "error"
            THEN /\ c_running' = FALSE
                 /\ c_open' = FALSE
                 /\ cpc' = "ended"
                 /\ UNCHANGED <<c_connected, retry_delay, c_fails>>
          ELSE IF a = "registered"
            THEN /\ c_connected' = TRUE
                 /\ retry_delay' = InitialRetryDelay
                 /\ c_fails' = 0
                 /\ cpc' = "loop"
                 /\ UNCHANGED <<c_running, c_open>>
            ELSE /\ cpc' = "loop"
                 /\ UNCHANGED <<c_running, c_connected, c_open, retry_delay, c_fails>>
  /\ UNCHANGED <<c_ws, c_attempts, taskVars>>
  /\ UNCHANGED <<orchVars, relayVars, webVars, auxVars, dataVars>>

\* The tunnel connection closes (the relay or the network, or stop() closed it): recv
\* raises ConnectionClosed, or the message loop ends.
ClientConnectionClosed ==
  /\ cpc \in {"registering", "loop"}
  /\ Cleanup
  /\ UNCHANGED <<c_running, retry_delay, c_attempts, c_answer, hpc, req_id, c_sent>>
  /\ UNCHANGED <<orchVars, relayVars, webVars, auxVars, dataVars>>

\* The message loop reads an http_request or a ws_open frame: not running, it breaks;
\* else it spawns the task for the frame.
ClientFrame(f) ==
  /\ cpc = "loop"
  /\ c_open
  /\ c_frame[f].type = "none"
  /\ \A k \in Frames : k < f => c_frame[k].type # "none"
  /\ IF ~c_running
       THEN /\ Cleanup
            /\ UNCHANGED <<hpc, req_id>>
       ELSE /\ \E t \in FrameTypes :
                 /\ c_frame' = [c_frame EXCEPT ![f] = [type |-> t, id |-> FreshId, live |-> TRUE]]
                 /\ req_id' = [req_id EXCEPT ![f] = FreshId]
            /\ hpc' = [hpc EXCEPT ![f] = "running"]
            /\ UNCHANGED <<c_connected, c_ws, c_open, cpc, c_fails, local_ws>>
  /\ UNCHANGED <<c_running, retry_delay, c_attempts, c_answer, c_sent>>
  /\ UNCHANGED <<orchVars, relayVars, webVars, auxVars, dataVars>>

\* The message loop reads the ws_close frame for an id it has read ws_open for:
\* _handle_ws_close pops the local socket, if the map has one, and closes it.
ClientWsClose(f) ==
  /\ cpc = "loop"
  /\ c_open
  /\ c_running
  /\ c_frame[f].type = "ws_open"
  /\ c_frame[f].live
  /\ ~ws_close_seen[f]
  /\ local_ws' = local_ws \ {c_frame[f].id}
  /\ ws_close_seen' = [ws_close_seen EXCEPT ![f] = TRUE]
  /\ UNCHANGED <<loopVars, c_frame, hpc, req_id, c_sent, d_sent, d_delivered>>
  /\ UNCHANGED <<orchVars, relayVars, webVars, auxVars>>

\* The message loop reads a ws_data frame, which the relay sends for an id between
\* its ws_open and its ws_close: _handle_ws_data looks the id up and sends the data to
\* the local socket; a send that raises pops the socket; no socket, nothing is done.
ClientWsData(f) ==
  /\ cpc = "loop"
  /\ c_open
  /\ c_running
  /\ c_frame[f].type = "ws_open"
  /\ c_frame[f].live
  /\ ~ws_close_seen[f]
  /\ d_sent[f] < MaxData
  /\ d_sent' = [d_sent EXCEPT ![f] = d_sent[f] + 1]
  /\ IF c_frame[f].id \in local_ws
       THEN \E sendOk \in BOOLEAN :
              IF sendOk
                THEN /\ d_delivered' = [d_delivered EXCEPT ![f] = d_delivered[f] + 1]
                     /\ UNCHANGED local_ws
                ELSE /\ local_ws' = local_ws \ {c_frame[f].id}
                     /\ UNCHANGED d_delivered
       ELSE UNCHANGED <<d_delivered, local_ws>>
  /\ UNCHANGED <<loopVars, c_frame, hpc, req_id, c_sent, ws_close_seen>>
  /\ UNCHANGED <<orchVars, relayVars, webVars, auxVars>>

\* After the sleep: retry_delay = min(retry_delay * 2, 60), and the next round.
ClientWake ==
  /\ cpc = "sleeping"
  /\ retry_delay' = NextDelay(retry_delay)
  /\ cpc' = "connecting"
  /\ UNCHANGED <<c_running, c_connected, c_ws, c_open, c_attempts, c_fails, c_answer, taskVars>>
  /\ UNCHANGED <<orchVars, relayVars, webVars, auxVars, dataVars>>

\* _handle_http_request after the local call: the http_response with the local
\* server's status, or, the call having raised, the 502 reply.
HttpTaskDone(f) ==
  /\ hpc[f] = "running"
  /\ c_frame[f].type = "http_request"
  /\ \E st \in HttpStatuses \cup {ProxyErrorStatus} :
       c_sent' = Send([type |-> "http_response", id |-> FrameId(f), for |-> f, status |-> st])
  /\ hpc' = [hpc EXCEPT ![f] = "done"]
  /\ UNCHANGED <<loopVars, c_frame, req_id, local_ws>>
  /\ UNCHANGED <<orchVars, relayVars, webVars, auxVars, dataVars>>

\* _handle_ws_open after the local connect: the socket is kept, ws_opened sent and the
\* bridge spawned; or, the connect having raised, ws_error is sent.
WsOpenTaskDone(f) ==
  /\ hpc[f] = "running"
  /\ c_frame[f].type = "ws_open"
  /\ \E ok \in BOOLEAN :
       IF ok
         THEN /\ local_ws' = local_ws \cup {FrameId(f)}
              /\ c_sent' = Send([type |-> "ws_opened", id |-> FrameId(f), for |-> f, status |-> 0])
              /\ hpc' = [hpc EXCEPT ![f] = "bridging"]
         ELSE /\ c_sent' = Send([type |-> "ws_error", id |-> FrameId(f), for |-> f, status |-> 0])
              /\ hpc' = [hpc EXCEPT ![f] = "done"]
              /\ UNCHANGED local_ws
  /\ UNCHANGED <<loopVars, c_frame, req_id>>
  /\ UNCHANGED <<orchVars, relayVars, webVars, auxVars, dataVars>>

\* _bridge_local_ws reads a message of the local socket and forwards it.
BridgeData(f) ==
  /\ hpc[f] = "bridging"
  /\ c_ws # 0
  /\ FrameId(f) \in local_ws
  /\ c_sent' = Send([type |-> "ws_data", id |-> FrameId(f), for |-> f, status |-> 0])
  /\ UNCHANGED <<loopVars, c_frame, hpc, req_id, local_ws>>
  /\ UNCHANGED <<orchVars, relayVars, webVars, auxVars, dataVars>>

\* The local socket is closed (by the local server, by _handle_ws_close, by the
\* cleanup or by stop()): the bridge's finally pops it and sends ws_close.
BridgeEnd(f) ==
  /\ hpc[f] = "bridging"
  /\ local_ws' = local_ws \ {FrameId(f)}
  /\ c_sent' = Send([type |-> "ws_close", id |-> FrameId(f), for |-> f, status |-> 0])
  /\ hpc' = [hpc EXCEPT ![f] = "done"]
  /\ UNCHANGED <<loopVars, c_frame, req_id>>
  /\ UNCHANGED <<orchVars, relayVars, webVars, auxVars, dataVars>>

InitClientOnly ==
  /\ now = 0
  /\ obsRec = [active |-> FALSE, path |-> 0, start |-> 0]
  /\ InitCore
  /\ InitRelay
  /\ InitClient
  /\ InitWeb
  /\ InitAux

NextClient ==
  \/ ClientStart
  \/ ClientStop
  \/ ClientConnect
  \/ ClientConnected
  \/ ClientAnswer
  \/ ClientConnectionClosed
  \/ ClientWake
  \/ \E f \in Frames : ClientFrame(f)
  \/ \E f \in Frames : ClientWsClose(f)
  \/ \E f \in Frames : HttpTaskDone(f)
  \/ \E f \in Frames : WsOpenTaskDone(f)
  \/ \E f \in Frames : BridgeData(f)
  \/ \E f \in Frames : BridgeEnd(f)

SpecClient == InitClientOnly /\ [][NextClient]_vars

\* One connection of the client, from start() on, with the ws_data frames of the relay:
\* the connect loop does not come back from its backoff sleep.
NextBridge ==
  \/ ClientStart
  \/ ClientStop
  \/ ClientConnect
  \/ ClientConnected
  \/ ClientAnswer
  \/ ClientConnectionClosed
  \/ \E f \in Frames : ClientFrame(f)
  \/ \E f \in Frames : ClientWsClose(f)
  \/ \E f \in Frames : ClientWsData(f)
  \/ \E f \in Frames : HttpTaskDone(f)
  \/ \E f \in Frames : WsOpenTaskDone(f)
  \/ \E f \in Frames : BridgeData(f)
  \/ \E f \in Frames : BridgeEnd(f)

SpecBridge == InitClientOnly /\ [][NextBridge]_vars

(* ----------------------- the HTTP server: requests --------------------- *)
\* Time passes between requests.
WebTick ==
  /\ w_req = NoRequest
  /\ w_now < MaxWebTime
  /\ w_now' = w_now + 1
  /\ UNCHANGED <<w_password, w_file_size, w_req, w_resp>>
  /\ UNCHANGED <<orchVars, relayVars, clientVars, auxVars>>

\* One request, handled by do_GET, do_POST or do_PUT.  The cookie is read on the
\* paths that call _check_auth, the Range header by _serve_clip_file, and the
\* password by /admin/_auth.  w_file_size is what os.path.getsize finds for the clip
\* when the request is served.
WebRequest ==
  /\ w_req = NoRequest
  /\ \E peer \in Peers, method \in Methods, path \in Paths :
     \E cookie \in IF path \in {ClipPath, AuthPath, LoginPath} THEN {NoCookie} ELSE Cookies,
        range \in IF path = ClipPath /\ method = "GET" THEN Ranges ELSE {NoRangeHeader},
        size \in IF path = ClipPath /\ method = "GET" THEN 0..MaxFile ELSE {0},
        pwOk \in IF path = AuthPath /\ method # "GET" THEN BOOLEAN ELSE {FALSE} :
       /\ w_file_size' = size
       /\ LET req == [peer |-> peer, method |-> method, path |-> path, cookie |-> cookie,
                      range |-> range, password_ok |-> pwOk, at |-> w_now,
                      via |-> "direct"]
              authed == CheckAuth(peer, cookie, w_now, w_password)
          IN  /\ w_req' = req
              /\ w_resp' = IF method = "GET" THEN DoGet(req, size, authed)
                           ELSE DoPost(req, w_now, w_password, authed)
  /\ UNCHANGED <<w_now, w_password>>
  /\ UNCHANGED <<orchVars, relayVars, clientVars, auxVars>>

\* A browser's request to the relay's /{instance_id}/{path}: handle_proxy puts method,
\* path, headers (the Cookie header among them) and body into an http_request frame,
\* and the tunnel client's _do_http_request sends them to the local server over a
\* connection from 127.0.0.1.
WebTunnelRequest ==
  /\ w_req = NoRequest
  /\ \E method \in Methods, path \in Paths :
     \E cookie \in IF path \in {ClipPath, AuthPath, LoginPath} THEN {NoCookie} ELSE Cookies,
        range \in IF path = ClipPath /\ method = "GET" THEN Ranges ELSE {NoRangeHeader},
        size \in IF path = ClipPath /\ method = "GET" THEN 0..MaxFile ELSE {0},
        pwOk \in IF path = AuthPath /\ method # "GET" THEN BOOLEAN ELSE {FALSE} :
       /\ w_file_size' = size
       /\ LET req == [peer |-> Localhost, method |-> method, path |-> path, cookie |-> cookie,
                      range |-> range, password_ok |-> pwOk, at |-> w_now,
                      via |-> "tunnel"]
              authed == CheckAuth(Localhost, cookie, w_now, w_password)
          IN  /\ w_req' = req
              /\ w_resp' = IF method = "GET" THEN DoGet(req, size, authed)
                           ELSE DoPost(req, w_now, w_password, authed)
  /\ UNCHANGED <<w_now, w_password>>
  /\ UNCHANGED <<orchVars, relayVars, clientVars, auxVars>>

\* The handler returns; the server takes the next request.
WebReturn ==
  /\ w_req # NoRequest
  /\ w_req' = NoRequest
  /\ w_resp' = Plain(0, "none")
  /\ w_file_size' = 0
  /\ UNCHANGED <<w_now, w_password>>
  /\ UNCHANGED <<orchVars, relayVars, clientVars, auxVars>>

InitWebOnly ==
  /\ now = 0
  /\ obsRec = [active |-> FALSE, path |-> 0, start |-> 0]
  /\ InitCore
  /\ InitRelay
  /\ InitClient
  /\ w_now = 0
  /\ w_password \in Passwords
  /\ w_file_size = 0
  /\ w_req = NoRequest
  /\ w_resp = Plain(0, "none")
  /\ InitAux

NextWeb ==
  \/ WebTick
  \/ WebRequest
  \/ WebReturn

SpecWeb == InitWebOnly /\ [][NextWeb]_vars

\* The local server with the requests that reach it through the relay and the tunnel.
NextWebTunnel ==
  \/ WebTick
  \/ WebRequest
  \/ WebTunnelRequest
  \/ WebReturn

SpecWebTunnel == InitWebOnly /\ [][NextWebTunnel]_vars

(* --------------------------- the sync worker --------------------------- *)
\* update_config sets or clears rsync_host and rsync_module.
SyncUpdateConfig ==
  /\ \E h \in BOOLEAN, m \in BOOLEAN :
       /\ <<h, m>> # <<rsync_host, rsync_module>>
       /\ rsync_host' = h
       /\ rsync_module' = m
  /\ UNCHANGED <<sync_running, spc, s_left, s_ret, s_stopped>>
  /\ UNCHANGED othersOfSync

\* start_sync: the three refusals, then sync_running = True and a new thread.
StartSync ==
  /\ IF ~rsync_host \/ ~rsync_module \/ sync_running
       THEN /\ s_ret' = "false"
            /\ UNCHANGED <<sync_running, spc, s_left, s_stopped>>
       ELSE /\ \E w \in Workers :
                 /\ spc[w] = "none"
                 /\ \A k \in Workers : k < w => spc[k] # "none"
                 /\ spc' = [spc EXCEPT ![w] = "while"]
            /\ sync_running' = TRUE
            /\ s_ret' = "true"
            /\ UNCHANGED <<s_left, s_stopped>>
  /\ UNCHANGED <<rsync_host, rsync_module>>
  /\ UNCHANGED othersOfSync

\* stop_sync: clears the flag if it is set, and returns.
StopSync ==
  /\ sync_running
  /\ sync_running' = FALSE
  /\ s_stopped' = [w \in Workers |-> s_stopped[w] \/ spc[w] = "rsync"]
  /\ UNCHANGED <<rsync_host, rsync_module, spc, s_left, s_ret>>
  /\ UNCHANGED othersOfSync

\* while self.sync_running:
SyncWhile(w) ==
  /\ spc[w] = "while"
  /\ spc' = [spc EXCEPT ![w] = IF sync_running THEN "call" ELSE "exit"]
  /\ UNCHANGED <<rsync_host, rsync_module, sync_running, s_left, s_ret, s_stopped>>
  /\ UNCHANGED othersOfSync

\* success = self._run_rsync(): subprocess.run starts the rsync invocation.
SyncRun(w) ==
  /\ spc[w] = "call"
  /\ spc' = [spc EXCEPT ![w] = "rsync"]
  /\ UNCHANGED <<rsync_host, rsync_module, sync_running, s_left, s_ret, s_stopped>>
  /\ UNCHANGED othersOfSync

\* The invocation returns (at the latest after its timeout), with either outcome;
\* if self.sync_running: the thread enters its sleep loop, else it is back at while.
SyncRsyncReturns(w) ==
  /\ spc[w] = "rsync"
  /\ IF sync_running
       THEN /\ spc' = [spc EXCEPT ![w] = "sleep"]
            /\ s_left' = [s_left EXCEPT ![w] = SyncInterval]
       ELSE /\ spc' = [spc EXCEPT ![w] = "while"]
            /\ UNCHANGED s_left
  /\ UNCHANGED <<rsync_host, rsync_module, sync_running, s_ret, s_stopped>>
  /\ UNCHANGED othersOfSync

\* for _ in range(interval): if not self.sync_running: break; time.sleep(1)
SyncSleep(w) ==
  /\ spc[w] = "sleep"
  /\ IF s_left[w] = 0 \/ ~sync_running
       THEN /\ spc' = [spc EXCEPT ![w] = "while"]
            /\ s_left' = [s_left EXCEPT ![w] = 0]
       ELSE /\ s_left' = [s_left EXCEPT ![w] = s_left[w] - 1]
            /\ UNCHANGED spc
  /\ UNCHANGED <<rsync_host, rsync_module, sync_running, s_ret, s_stopped>>
  /\ UNCHANGED othersOfSync

\* After the loop: self.sync_running = False, and the thread ends.
SyncExit(w) ==
  /\ spc[w] = "exit"
  /\ spc' = [spc EXCEPT ![w] = "done"]
  /\ sync_running' = FALSE
  /\ UNCHANGED <<rsync_host, rsync_module, s_left, s_ret, s_stopped>>
  /\ UNCHANGED othersOfSync

InitSyncOnly ==
  /\ now = 0
  /\ obsRec = [active |-> FALSE, path |-> 0, start |-> 0]
  /\ InitCore
  /\ InitRelay
  /\ InitClient
  /\ InitWeb
  /\ InitScenes
  /\ InitRec
  /\ InitStatus
  /\ InitTunnelCore
  /\ InitHandshake
  /\ rsync_host \in BOOLEAN
  /\ rsync_module \in BOOLEAN
  /\ sync_running = FALSE
  /\ spc = [w \in Workers |-> "none"]
  /\ s_left = [w \in Workers |-> 0]
  /\ s_ret = "none"
  /\ s_stopped = [w \in Workers |-> FALSE]

NextSync ==
  \/ SyncUpdateConfig
  \/ StartSync
  \/ StopSync
  \/ \E w \in Workers : SyncWhile(w)
  \/ \E w \in Workers : SyncRun(w)
  \/ \E w \in Workers : SyncRsyncReturns(w)
  \/ \E w \in Workers : SyncSleep(w)
  \/ \E w \in Workers : SyncExit(w)

SpecSync == InitSyncOnly /\ [][NextSync]_vars

(* ------------------------ scene configuration -------------------------- *)
ConfiguredScenes == 1..3        \* configure_obs_scenes: for field_num in range(1, 4)
ObsApis == {"new", "old"}       \* the switcher answers CreateInput / CreateSceneItem, or only
                                \* the older CreateSource / AddSceneItem
RequestKinds == {"GetSceneList", "CreateScene", "GetInputList", "CreateInput", "CreateSource",
                 "GetSceneItemList", "CreateSceneItem", "AddSceneItem"}

\* configure_obs_scenes against the switcher sw = [scenes, input, items] that speaks api
\* and fails every request of kind bad: the switcher it leaves, the creation requests
\* it issued, and its return value.
RunConfigure(sw, api, bad) ==
  IF bad = "GetSceneList"
    THEN [scenes |-> sw.scenes, input |-> sw.input, items |-> sw.items, created |-> 0, ret |-> "false"]
    ELSE
      LET missing == {i \in ConfiguredScenes : i \notin sw.scenes}
          scenes == IF bad = "CreateScene" THEN sw.scenes ELSE sw.scenes \cup missing
          existing_sources == IF bad = "GetInputList" THEN FALSE ELSE sw.input
          newInput == /\ ~existing_sources
                      /\ api = "new" /\ bad # "CreateInput" /\ 1 \in scenes /\ ~sw.input
          oldInput == /\ ~existing_sources /\ ~newInput
                      /\ api = "old" /\ bad # "CreateSource" /\ ~sw.input
          input == sw.input \/ newInput \/ oldInput
          items5 == IF newInput THEN sw.items \cup {1} ELSE sw.items
          inputRequests == IF existing_sources THEN 0 ELSE IF newInput THEN 1 ELSE 2
          existing_items(i) == bad # "GetSceneItemList" /\ i \in scenes /\ i \in items5
          asks(i) == ~existing_items(i) /\ ~(i = 1 /\ ~existing_sources)
          newItem(i) == asks(i) /\ api = "new" /\ bad # "CreateSceneItem" /\ i \in scenes /\ input
          oldItem(i) == asks(i) /\ ~newItem(i)
                        /\ api = "old" /\ bad # "AddSceneItem" /\ i \in scenes /\ input
          itemRequests(i) == IF ~asks(i) THEN 0 ELSE IF newItem(i) THEN 1 ELSE 2
      IN  [scenes |-> scenes,
           input |-> input,
           items |-> items5 \cup {i \in ConfiguredScenes : newItem(i) \/ oldItem(i)},
           created |-> Cardinality(missing) + inputRequests
                         + itemRequests(1) + itemRequests(2) + itemRequests(3),
           ret |-> "true"]

\* configure_obs_scenes (POST /api/configure-obs, --configure-obs-only): connects to the
\* switcher if there is no connection, then runs.
ConfigureObsScenes ==
  /\ \E connects \in BOOLEAN, api \in ObsApis, bad \in RequestKinds \cup {"none"} :
       IF ~obs_ws /\ ~connects
         THEN /\ cfg_ret' = "false"
              /\ cfg_created' = 0
              /\ cfg_clean' = FALSE
              /\ cfg_second' = "no"
              /\ UNCHANGED <<obs_ws, o_scenes, o_input, o_items>>
         ELSE LET run == RunConfigure([scenes |-> o_scenes, input |-> o_input, items |-> o_items],
                                      api, bad)
              IN  /\ obs_ws' = TRUE
                  /\ o_scenes' = run.scenes
                  /\ o_input' = run.input
                  /\ o_items' = run.items
                  /\ cfg_ret' = run.ret
                  /\ cfg_created' = run.created
                  /\ cfg_clean' = (api = "new" /\ bad = "none")
                  /\ cfg_second' = IF cfg_ret # "true" THEN "no"
                                   ELSE IF cfg_clean THEN "clean" ELSE "yes"
  /\ UNCHANGED num_fields
  /\ UNCHANGED <<envVars, running, current_field, local_video_processor, lvp_cfg, ftc_websocket,
                 monVars, clipVars, seenVars>>
  /\ UNCHANGED othersOfScenes

\* The number of fields is configured anew.
SetNumFields ==
  /\ \E n \in 1..MaxNumFields :
       /\ n # num_fields
       /\ num_fields' = n
  /\ cfg_ret' = "none"
  /\ UNCHANGED <<o_scenes, o_input, o_items, cfg_created, cfg_clean, cfg_second>>
  /\ UNCHANGED <<orchVars, othersOfScenes>>

\* The operator removes a scene, the overlay input or the overlay from a scene.
OperatorRemoves ==
  /\ \/ \E i \in o_scenes :
          /\ o_scenes' = o_scenes \ {i}
          /\ o_items' = o_items \ {i}
          /\ UNCHANGED o_input
     \/ /\ o_input
        /\ o_input' = FALSE
        /\ o_items' = {}
        /\ UNCHANGED o_scenes
     \/ \E i \in o_items :
          /\ o_items' = o_items \ {i}
          /\ UNCHANGED <<o_scenes, o_input>>
  /\ cfg_ret' = "none"
  /\ UNCHANGED <<num_fields, cfg_created, cfg_clean, cfg_second>>
  /\ UNCHANGED <<orchVars, othersOfScenes>>

InitScenesOnly ==
  /\ now = 0
  /\ obsRec = [active |-> FALSE, path |-> 0, start |-> 0]
  /\ InitCore
  /\ InitRelay
  /\ InitClient
  /\ InitWeb
  /\ InitSync
  /\ InitScenes
  /\ InitRec
  /\ InitStatus
  /\ InitTunnelCore
  /\ InitHandshake

NextScenes ==
  \/ ConfigureObsScenes
  \/ SetNumFields
  \/ OperatorRemoves

SpecScenes == InitScenesOnly /\ [][NextScenes]_vars

(* ------------------------ the recording monitor ------------------------ *)
\* Five seconds pass.
RecTick ==
  /\ r_result = "none"
  /\ r_now + MonitorPeriod <= MaxRecTime
  /\ r_now' = r_now + MonitorPeriod
  /\ UNCHANGED <<r_exists, r_size, last_file_size, file_growth_timestamps, is_monitoring,
                 r_wake, r_result, r_growth, r_sampled>>
  /\ UNCHANGED othersOfRec

\* The switcher creates the recording file, writes to it, or the file is removed.
RecordingFileChanges ==
  /\ r_result = "none"
  /\ \/ /\ ~r_exists
        /\ r_exists' = TRUE
        /\ r_size' = 0
     \/ /\ r_exists
        /\ r_size < MaxRecSize
        /\ r_size' = r_size + 1
        /\ UNCHANGED r_exists
     \/ /\ r_exists
        /\ r_exists' = FALSE
        /\ r_size' = 0
  /\ UNCHANGED <<r_now, last_file_size, file_growth_timestamps, is_monitoring, r_wake,
                 r_result, r_growth, r_sampled>>
  /\ UNCHANGED othersOfRec

\* start_monitoring: the monitor task is created.
StartRecMonitoring ==
  /\ r_result = "none"
  /\ ~is_monitoring
  /\ is_monitoring' = TRUE
  /\ r_wake' = r_now
  /\ UNCHANGED <<r_now, r_exists, r_size, last_file_size, file_growth_timestamps,
                 r_result, r_growth, r_sampled>>
  /\ UNCHANGED othersOfRec

\* stop_monitoring: the monitor task is cancelled.
StopRecMonitoring ==
  /\ r_result = "none"
  /\ is_monitoring
  /\ is_monitoring' = FALSE
  /\ UNCHANGED <<r_now, r_exists, r_size, last_file_size, file_growth_timestamps,
                 r_wake, r_result, r_growth, r_sampled>>
  /\ UNCHANGED othersOfRec

\* One round of _monitor_recording: a size other than last_file_size is recorded with
\* the time; then the task sleeps.
MonitorSample ==
  /\ r_result = "none"
  /\ is_monitoring
  /\ r_now >= r_wake
  /\ r_wake' = r_now + MonitorPeriod
  /\ IF r_exists
       THEN /\ r_sampled' = r_now
            /\ r_growth' = IF r_size > last_file_size THEN r_now ELSE r_growth
            /\ IF r_size # last_file_size
                 THEN /\ last_file_size' = r_size
                      /\ file_growth_timestamps' = file_growth_timestamps \cup {r_now}
                 ELSE UNCHANGED <<last_file_size, file_growth_timestamps>>
       ELSE UNCHANGED <<last_file_size, file_growth_timestamps, r_growth, r_sampled>>
  /\ UNCHANGED <<r_now, r_exists, r_size, is_monitoring, r_result>>
  /\ UNCHANGED othersOfRec

\* The timestamps is_recording_available keeps: t > cutoff_time.
Recent(ts, t) == {x \in ts : x > t - GrowthWindow}

\* is_recording_available is called: the list is pruned in the branch that found the
\* file grown, and left as it is in the other.
IsRecordingAvailable ==
  /\ r_result = "none"
  /\ IF ~r_exists
       THEN /\ r_result' = "false"
            /\ UNCHANGED <<last_file_size, file_growth_timestamps, r_growth, r_sampled>>
       ELSE /\ r_sampled' = r_now
            /\ IF r_size > last_file_size
                 THEN /\ last_file_size' = r_size
                      /\ file_growth_timestamps' = Recent(file_growth_timestamps \cup {r_now}, r_now)
                      /\ r_growth' = r_now
                 ELSE UNCHANGED <<last_file_size, file_growth_timestamps, r_growth>>
            /\ r_result' = IF file_growth_timestamps' # {} THEN "true" ELSE "false"
  /\ UNCHANGED <<r_now, r_exists, r_size, is_monitoring, r_wake>>
  /\ UNCHANGED othersOfRec

\* The call returns.
IsRecordingReturns ==
  /\ r_result # "none"
  /\ r_result' = "none"
  /\ UNCHANGED <<r_now, r_exists, r_size, last_file_size, file_growth_timestamps, is_monitoring,
                 r_wake, r_growth, r_sampled>>
  /\ UNCHANGED othersOfRec

InitRecOnly ==
  /\ now = 0
  /\ obsRec = [active |-> FALSE, path |-> 0, start |-> 0]
  /\ InitCore
  /\ InitRelay
  /\ InitClient
  /\ InitWeb
  /\ InitSync
  /\ InitScenes
  /\ InitRec
  /\ InitStatus
  /\ InitTunnelCore
  /\ InitHandshake

NextRec ==
  \/ RecTick
  \/ RecordingFileChanges
  \/ StartRecMonitoring
  \/ StopRecMonitoring
  \/ MonitorSample
  \/ IsRecordingAvailable
  \/ IsRecordingReturns

SpecRecording == InitRecOnly /\ [][NextRec]_vars

(* ------------------------ the /ws/status broadcaster ------------------- *)
\* A thread changes the status of the core (running, current_field, sync_running, ...)
\* and goes on to _notify_status_change.
StatusTransition(p) ==
  /\ ppc[p] = "idle"
  /\ status_version < MaxTransitions
  /\ status_version' = status_version + 1
  /\ ppc' = [ppc EXCEPT ![p] = "notify"]
  /\ UNCHANGED <<p_status, loop_calls, status_clients, ws_state, ws_received>>
  /\ UNCHANGED othersOfStatus

\* _notify_status_change: status = self.get_status(), in the thread of the producer.
NotifyGetStatus(p) ==
  /\ ppc[p] = "notify"
  /\ p_status' = [p_status EXCEPT ![p] = status_version]
  /\ ppc' = [ppc EXCEPT ![p] = "callback"]
  /\ UNCHANGED <<status_version, loop_calls, status_clients, ws_state, ws_received>>
  /\ UNCHANGED othersOfStatus

\* cb(status) -> broadcast_status: with a loop and a subscriber, the coroutine is
\* handed to the loop by run_coroutine_threadsafe, behind those handed over before.
BroadcastStatus(p) ==
  /\ ppc[p] = "callback"
  /\ loop_calls' = IF status_clients # {} THEN Append(loop_calls, p_status[p]) ELSE loop_calls
  /\ ppc' = [ppc EXCEPT ![p] = "idle"]
  /\ UNCHANGED <<status_version, p_status, status_clients, ws_state, ws_received>>
  /\ UNCHANGED othersOfStatus

\* _broadcast_status_async, the oldest call scheduled: the snapshot is sent to every
\* socket in _status_clients; a socket whose send raises is dropped from the set.
BroadcastStatusAsync ==
  /\ loop_calls # <<>>
  /\ ws_received' = [c \in Subscribers |->
                       IF c \in status_clients /\ ws_state[c] = "open"
                         THEN Append(ws_received[c], Head(loop_calls))
                         ELSE ws_received[c]]
  /\ status_clients' = {c \in status_clients : ws_state[c] = "open"}
  /\ loop_calls' = Tail(loop_calls)
  /\ UNCHANGED <<status_version, ppc, p_status, ws_state>>
  /\ UNCHANGED othersOfStatus

\* _handle_status for a new connection: the socket joins _status_clients and is sent
\* self._core.get_status(), taken on the loop.
HandleStatus(c) ==
  /\ ws_state[c] = "none"
  /\ ws_state' = [ws_state EXCEPT ![c] = "open"]
  /\ status_clients' = status_clients \cup {c}
  /\ ws_received' = [ws_received EXCEPT ![c] = <<status_version>>]
  /\ UNCHANGED <<status_version, ppc, p_status, loop_calls>>
  /\ UNCHANGED othersOfStatus

\* The subscriber closes its connection.
StatusPeerClose(c) ==
  /\ ws_state[c] = "open"
  /\ ws_state' = [ws_state EXCEPT ![c] = "closed"]
  /\ UNCHANGED <<status_version, ppc, p_status, loop_calls, status_clients, ws_received>>
  /\ UNCHANGED othersOfStatus

\* `async for _ in websocket` ends for a closed connection: finally, discard.
HandleStatusEnd(c) ==
  /\ ws_state[c] = "closed"
  /\ c \in status_clients
  /\ status_clients' = status_clients \ {c}
  /\ UNCHANGED <<status_version, ppc, p_status, loop_calls, ws_state, ws_received>>
  /\ UNCHANGED othersOfStatus

InitStatusOnly ==
  /\ now = 0
  /\ obsRec = [active |-> FALSE, path |-> 0, start |-> 0]
  /\ InitCore
  /\ InitRelay
  /\ InitClient
  /\ InitWeb
  /\ InitAux

NextStatus ==
  \/ \E p \in Producers : StatusTransition(p)
  \/ \E p \in Producers : NotifyGetStatus(p)
  \/ \E p \in Producers : BroadcastStatus(p)
  \/ BroadcastStatusAsync
  \/ \E c \in Subscribers : HandleStatus(c)
  \/ \E c \in Subscribers : StatusPeerClose(c)
  \/ \E c \in Subscribers : HandleStatusEnd(c)

SpecStatus == InitStatusOnly /\ [][NextStatus]_vars

(* --------------------- the registration handshake ---------------------- *)
\* One connection to GET /tunnel, from dialling to the handling of the relay's answer:
\* WSTunnelClient._connect_loop on one side, RelayServer.handle_tunnel up to its answer
\* on the other.  The relay also serves programs other than the tunnel client.

\* start() of the client (or the other program begins), and the connect succeeds.
HsDial(peer) ==
  /\ hs_pc = "idle"
  /\ hs_peer' = peer
  /\ hs_running' = (peer = "client")
  /\ hs_pc' = "dialled"
  /\ UNCHANGED <<hs_token, hs_config, hs_frame, hs_reply, hs_close, hs_connected>>
  /\ UNCHANGED othersOfHandshake

\* await ws.send(json.dumps({'type': 'register', ...}))
HsSendRegister ==
  /\ hs_pc = "dialled"
  /\ IF hs_peer = "client"
       THEN hs_frame' = RegisterFrame(hs_config)
       ELSE hs_frame' \in ForeignFrames
  /\ hs_pc' = "sent"
  /\ UNCHANGED <<hs_token, hs_config, hs_peer, hs_reply, hs_close, hs_running, hs_connected>>
  /\ UNCHANGED othersOfHandshake

\* handle_tunnel from the first receive to its answer: not a register frame, a wrong
\* token, or the instance installed under its event code and `registered` sent.
HsRelayRegister ==
  /\ hs_pc = "sent"
  /\ IF Get(hs_frame, "type") # "register"
       THEN /\ hs_reply' = [type |-> "error", message |-> "First message must be register"]
            /\ hs_close' = NormalCloseCode
     ELSE IF ~TokenValid(hs_frame, hs_token)
       THEN /\ hs_reply' = [type |-> "error", message |-> "Invalid token"]
            /\ hs_close' = InvalidTokenCloseCode
     ELSE /\ hs_reply' = [type |-> "registered", instance_id |-> Get(hs_frame, "event_code")]
          /\ hs_close' = 0
  /\ hs_pc' = "answered"
  /\ UNCHANGED <<hs_token, hs_config, hs_peer, hs_frame, hs_running, hs_connected>>
  /\ UNCHANGED othersOfHandshake

\* resp = json.loads(await ws.recv()) in _connect_loop: an error ends the client for
\* good, `registered` marks it connected.
HsClientAnswer ==
  /\ hs_pc = "answered"
  /\ hs_peer = "client"
  /\ hs_running' = (IF hs_reply.type = "error" THEN FALSE ELSE hs_running)
  /\ hs_connected' = (hs_reply.type = "registered")
  /\ hs_pc' = "handled"
  /\ UNCHANGED <<hs_token, hs_config, hs_peer, hs_frame, hs_reply, hs_close>>
  /\ UNCHANGED othersOfHandshake

InitHandshakeOnly ==
  /\ now = 0
  /\ obsRec = [active |-> FALSE, path |-> 0, start |-> 0]
  /\ InitCore
  /\ InitRelay
  /\ InitClient
  /\ InitWeb
  /\ InitSync
  /\ InitScenes
  /\ InitRec
  /\ InitStatus
  /\ InitTunnelCore
  /\ hs_token \in Secrets
  /\ hs_config \in Configs
  /\ hs_peer = "client"
  /\ hs_pc = "idle"
  /\ hs_frame = NoHsFrame
  /\ hs_reply = NoHsFrame
  /\ hs_close = 0
  /\ hs_running = FALSE
  /\ hs_connected = FALSE

NextHandshake ==
  \/ \E peer \in HsPeers : HsDial(peer)
  \/ HsSendRegister
  \/ HsRelayRegister
  \/ HsClientAnswer

SpecHandshake == InitHandshakeOnly /\ [][NextHandshake]_vars

\* aiohttp and websockets run every handler to its next await.
SpecHandshakeLive == SpecHandshake /\ WF_vars(NextHandshake)

(* ------------------- start_tunnel and stop_tunnel ---------------------- *)
\* MatchBoxCore.start_tunnel / stop_tunnel and the connect loop of each WSTunnelClient
\* they create, as far as _running and _connected go.

\* The end of one pass of `while self._running:` after the connection is gone or was
\* never made: _connected = False, then the backoff sleep if still running.
AfterConnection(c) ==
  /\ k_connected' = [k_connected EXCEPT ![c] = FALSE]
  /\ kpc' = [kpc EXCEPT ![c] = IF k_running[c] THEN "sleep" ELSE "while"]

\* start_tunnel: refused while the current client is connected or without the
\* broadcaster's loop; else a new WSTunnelClient replaces self.tunnel_client and
\* start() schedules its connect loop, unless no relay URL is configured.
StartTunnel ==
  /\ IF tunnel_client # 0 /\ k_connected[tunnel_client]
       THEN /\ k_ret' = "false"
            /\ UNCHANGED <<tunnel_client, kpc, k_running>>
     ELSE IF ~bc_loop
       THEN /\ k_ret' = "false"
            /\ UNCHANGED <<tunnel_client, kpc, k_running>>
     ELSE \E c \in TunnelClients :
            /\ kpc[c] = "none"
            /\ \A d \in TunnelClients : d < c => kpc[d] # "none"
            /\ tunnel_client' = c
            /\ IF ~relay_url
                 THEN /\ kpc' = [kpc EXCEPT ![c] = "unstarted"]
                      /\ k_ret' = "false"
                      /\ UNCHANGED k_running
                 ELSE /\ kpc' = [kpc EXCEPT ![c] = "while"]
                      /\ k_running' = [k_running EXCEPT ![c] = TRUE]
                      /\ k_ret' = "true"
  /\ UNCHANGED <<relay_url, bc_loop, k_connected>>
  /\ UNCHANGED othersOfTunnelCore

\* stop_tunnel: stop() of the current client, and self.tunnel_client = None.
StopTunnel ==
  /\ tunnel_client # 0
  /\ k_running' = [k_running EXCEPT ![tunnel_client] = FALSE]
  /\ k_connected' = [k_connected EXCEPT ![tunnel_client] = FALSE]
  /\ tunnel_client' = 0
  /\ UNCHANGED <<relay_url, bc_loop, kpc, k_ret>>
  /\ UNCHANGED othersOfTunnelCore

\* while self._running:
TcWhile(c) ==
  /\ kpc[c] = "while"
  /\ kpc' = [kpc EXCEPT ![c] = IF k_running[c] THEN "dial" ELSE "ended"]
  /\ UNCHANGED <<tunnel_client, relay_url, bc_loop, k_running, k_connected, k_ret>>
  /\ UNCHANGED othersOfTunnelCore

\* websockets.client.connect(ws_url) and the register frame, or the connect raises.
TcDial(c) ==
  /\ kpc[c] = "dial"
  /\ \E ok \in BOOLEAN :
       IF ok THEN /\ kpc' = [kpc EXCEPT ![c] = "await"]
                  /\ UNCHANGED k_connected
             ELSE AfterConnection(c)
  /\ UNCHANGED <<tunnel_client, relay_url, bc_loop, k_running, k_ret>>
  /\ UNCHANGED othersOfTunnelCore

\* The relay's answer: an error ends the client, `registered` connects it; or the
\* connection is closed before any answer.
TcAnswer(c) ==
  /\ kpc[c] = "await"
  /\ \E answer \in RelayAnswers \cup {"closed"} :
       CASE answer = "error" ->
              /\ k_running' = [k_running EXCEPT ![c] = FALSE]
              /\ kpc' = [kpc EXCEPT ![c] = "ended"]
              /\ UNCHANGED k_connected
         [] answer = "registered" ->
              /\ k_connected' = [k_connected EXCEPT ![c] = TRUE]
              /\ kpc' = [kpc EXCEPT ![c] = "loop"]
              /\ UNCHANGED k_running
         [] OTHER ->
              /\ AfterConnection(c)
              /\ UNCHANGED k_running
  /\ UNCHANGED <<tunnel_client, relay_url, bc_loop, k_ret>>
  /\ UNCHANGED othersOfTunnelCore

\* The message loop ends: the connection was closed (by the relay, or by stop()), or a
\* frame arrived while not _running.
TcClosed(c) ==
  /\ kpc[c] = "loop"
  /\ AfterConnection(c)
  /\ UNCHANGED <<tunnel_client, relay_url, bc_loop, k_running, k_ret>>
  /\ UNCHANGED othersOfTunnelCore

\* await asyncio.sleep(retry_delay) returns.
TcWake(c) ==
  /\ kpc[c] = "sleep"
  /\ kpc' = [kpc EXCEPT ![c] = "while"]
  /\ UNCHANGED <<tunnel_client, relay_url, bc_loop, k_running, k_connected, k_ret>>
  /\ UNCHANGED othersOfTunnelCore

InitTunnelCoreOnly ==
  /\ now = 0
  /\ obsRec = [active |-> FALSE, path |-> 0, start |-> 0]
  /\ InitCore
  /\ InitRelay
  /\ InitClient
  /\ InitWeb
  /\ InitSync
  /\ InitScenes
  /\ InitRec
  /\ InitStatus
  /\ InitHandshake
  /\ tunnel_client = 0
  /\ relay_url \in BOOLEAN
  /\ bc_loop \in BOOLEAN
  /\ kpc = [c \in TunnelClients |-> "none"]
  /\ k_running = [c \in TunnelClients |-> FALSE]
  /\ k_connected = [c \in TunnelClients |-> FALSE]
  /\ k_ret = "none"

NextTunnelCore ==
  \/ StartTunnel
  \/ StopTunnel
  \/ \E c \in TunnelClients : TcWhile(c)
  \/ \E c \in TunnelClients : TcDial(c)
  \/ \E c \in TunnelClients : TcAnswer(c)
  \/ \E c \in TunnelClients : TcClosed(c)
  \/ \E c \in TunnelClients : TcWake(c)

SpecTunnelCore == InitTunnelCoreOnly /\ [][NextTunnelCore]_vars

(* ------------------------------- Spec --------------------------------- *)
Next ==
  \/ Tick
  \/ ObsStartRecording
  \/ ObsStopRecording
  \/ ApiStartOnce
  \/ ApiStop
  \/ \E m \in Monitors : MonSetup(m)
  \/ \E m \in Monitors : MonConnect(m)
  \/ \E m \in Monitors : MonDrainRecv(m)
  \/ \E m \in Monitors : MonDrainEnd(m)
  \/ \E m \in Monitors : MonLoopCheck(m)
  \/ \E m \in Monitors : MonRecvTimeout(m)
  \/ \E m \in Monitors : MonRecv(m)
  \/ \E m \in Monitors : MonHandle(m)
  \/ \E m \in Monitors : MonConnectionClosed(m)
  \/ \E j \in 1..Len(jobs) : JobFire(j)
  \/ \E j \in 1..Len(jobs) : JobFfmpegDone(j)

Spec == Init /\ [][Next]_vars

\* Any sequence of /api/start and /api/stop requests, with the monitors they spawn.
NextStarts ==
  \/ Tick
  \/ ApiStart
  \/ ApiStop
  \/ \E m \in Monitors : MonSetup(m)
  \/ \E m \in Monitors : MonConnect(m)
  \/ \E m \in Monitors : MonDrainRecv(m)
  \/ \E m \in Monitors : MonDrainEnd(m)
  \/ \E m \in Monitors : MonLoopCheck(m)
  \/ \E m \in Monitors : MonRecvTimeout(m)
  \/ \E m \in Monitors : MonRecv(m)
  \/ \E m \in Monitors : MonHandle(m)
  \/ \E m \in Monitors : MonConnectionClosed(m)

\* No recording in the switcher: the frames the monitors handle schedule no clip job.
InitStarts ==
  /\ now = 0
  /\ obsRec = [active |-> FALSE, path |-> 0, start |-> 0]
  /\ InitCore
  /\ InitRelay
  /\ InitClient
  /\ InitWeb
  /\ InitAux

SpecStarts == InitStarts /\ [][NextStarts]_vars

\* The orchestrator started, stopped, and started again once the first run has ended.
NextRestart ==
  \/ Tick
  \/ ApiStartAfterEnd
  \/ ApiStop
  \/ \E m \in Monitors : MonSetup(m)
  \/ \E m \in Monitors : MonConnect(m)
  \/ \E m \in Monitors : MonDrainRecv(m)
  \/ \E m \in Monitors : MonDrainEnd(m)
  \/ \E m \in Monitors : MonLoopCheck(m)
  \/ \E m \in Monitors : MonRecvTimeout(m)
  \/ \E m \in Monitors : MonRecv(m)
  \/ \E m \in Monitors : MonHandle(m)
  \/ \E m \in Monitors : MonConnectionClosed(m)

SpecRestart == InitStarts /\ [][NextRestart]_vars

(* ===================== properties of the orchestrator ================== *)
ShowTypes == {"SHOW_PREVIEW", "SHOW_MATCH"}

\* Monitor m handles the frame in its hand in this step.
Handles(m) == pc[m] = "handle" /\ pc'[m] # "handle"

C2_CurrentFieldFollowsSwitch ==
  [][/\ current_field' # current_field
          => \E m \in Monitors : Handles(m) /\ frame[m].type \in ShowTypes
     /\ \A m \in Monitors :
          (Handles(m) /\ frame[m].type \in ShowTypes
             /\ frame[m].field # NoField /\ frame[m].field # current_field)
            => LET ok == /\ frame[m].field \in field_scene_mapping
                         /\ obs_ws
                         /\ frame[m].resp = "ok"
               IN  /\ ok => current_field' = frame[m].field
                   /\ ~ok => current_field' = current_field]_vars

\* Two scene requests went out for two frames and current_field holds a field: one of
\* the two switches was confirmed, the other confirmed or refused.
C2_Witness ==
  /\ nEvents = 2
  /\ scene_requests = 2
  /\ current_field # NoField
  /\ \A m \in Monitors : pc[m] # "handle"

\* C3: a step in which a draining monitor receives a frame sends no scene request,
\* creates no clip job, leaves current_field alone and keeps no frame in hand.
C3_DrainDiscards ==
  [][\A m \in Monitors :
       (pc[m] = "drain" /\ pc'[m] = "drain" /\ nEvents' # nEvents)
         => /\ scene_requests' = scene_requests
            /\ jobs' = jobs
            /\ current_field' = current_field
            /\ frame'[m] = NoFrame]_vars

\* Two frames arrived in the draining window of a run that could have cut clips.
C3_Witness ==
  \E m \in Monitors :
    /\ pc[m] = "drain"
    /\ nEvents = 2
    /\ local_video_processor
    /\ obs_ws
    /\ jobs = <<>>
    /\ scene_requests = 0

\* C7: a job leaves its sleep (asks the switcher for the recording and goes on to the
\* encoder) no earlier than match_duration + post_match_buffer + 8 seconds after it was
\* created, and the recording path and start it then takes to the encoder are the ones
\* the switcher has at that moment.
C7_FiresAfterWaitWithFreshInfo ==
  [][\A j \in 1..Len(jobs) :
       (jobs[j].st = "sleeping" /\ jobs'[j].st # "sleeping")
         => /\ now >= jobs[j].T + MatchDuration + PostBuffer + SafetyMargin
            /\ jobs'[j].st = "ffmpeg"
                 => /\ obsRec.active
                    /\ jobs'[j].rpath = obsRec.path
                    /\ jobs'[j].rstart = obsRec.start]_vars

\* A job went to the encoder with a recording that was started after the job was made.
C7_Witness ==
  \E j \in 1..Len(jobs) :
    /\ jobs[j].st = "ffmpeg"
    /\ jobs[j].rpath = 1
    /\ jobs[j].rstart > jobs[j].T

\* C8 as the specification states it: a clip job that has not finished can still run,
\* stop or no stop: the event loop its task lives on is running.
C8_PendingJobsKeepTheirLoop ==
  \A j \in 1..Len(jobs) :
    jobs[j].st \in {"sleeping", "ffmpeg"} => LoopAlive(jobs[j].owner)

\* C9 as the specification states it: a monitor that waits for a frame while the
\* orchestrator runs does not end its run in one step (the connection loss is the only
\* step that could).
C9_LossDoesNotEndRun ==
  [][\A m \in Monitors : (pc[m] = "recv" /\ running) => pc'[m] # "done"]_vars

(* ---------------------------- SpecExtract ------------------------------ *)
\* extract_clip on its own: two tasks whose sleep is over, on the loop of a running
\* monitor, for any match starts, recording start, pre-match buffer and clips a
\* previous run left in the directory.
LeftOver(match_name) ==
  {[name |-> OutputPath(match_name, k), by |-> 0, mtime |-> k] : k \in 0..MaxSuffix}

\* The task of a START_MATCH for the given field received at time T.
ReadyJob(field, T) ==
  [NewJob(1, [field |-> field]) EXCEPT !.T = T, !.wake = T + total_wait_time]

InitExtract ==
  /\ now = MaxStart + total_wait_time
  /\ \E R \in 0..MaxStart : obsRec = [active |-> TRUE, path |-> 0, start |-> R]
  /\ running = TRUE
  /\ obs_ws = TRUE
  /\ current_field = NoField
  /\ local_video_processor = TRUE
  /\ \E pre \in 0..MaxPre :
       lvp_cfg = [pre |-> pre, post |-> PostBuffer, dur |-> MatchDuration]
  /\ ftc_websocket = 1
  /\ pc = [m \in Monitors |-> IF m = 1 THEN "recv" ELSE "idle"]
  /\ sock = [m \in Monitors |-> IF m = 1 THEN "open" ELSE "none"]
  /\ backlog_end_time = [m \in Monitors |-> 0]
  /\ frame = [m \in Monitors |-> NoFrame]
  /\ \E T1 \in 0..MaxStart, T2 \in 0..MaxStart, field2 \in field_scene_mapping :
       jobs = <<ReadyJob(1, T1), ReadyJob(field2, T2)>>
  /\ clips_dir \in SUBSET LeftOver(generate_match_filename(jobs[1]))
  /\ current_match_clips = <<>>
  /\ index_html = FileNames(clips_dir)
  /\ index_list \in NewestFirst(clips_dir)
  /\ nEvents = 2
  /\ scene_requests = 0
  /\ handled = "none"
  /\ directed = {}
  /\ InitRelay
  /\ InitClient
  /\ InitWeb
  /\ InitAux

NextExtract ==
  \/ \E j \in 1..Len(jobs) : JobFire(j)
  \/ \E j \in 1..Len(jobs) : JobFfmpegDone(j)

SpecExtract == InitExtract /\ [][NextExtract]_vars

(* ======================= properties of extract_clip ==================== *)
\* C4: a job at the encoder has clip_start = max(0, (T - R) - pre_match_buffer) and
\* clip_duration = pre_match_buffer + match_duration + post_match_buffer, for the match
\* start T it was created with and the recording start R it took from the switcher, also
\* when T is before R; and that clip_start is the one the step-wise form gives (clamp
\* T - R to zero, subtract the buffer, clamp again).
C4_ClipGeometry ==
  \A j \in 1..Len(jobs) :
    jobs[j].st \in {"ffmpeg", "done"}
      => LET T == jobs[j].T
             R == jobs[j].rstart
             offset == IF T - R > 0 THEN T - R ELSE 0
         IN  /\ jobs[j].clip_start = (IF (T - R) - lvp_cfg.pre > 0 THEN (T - R) - lvp_cfg.pre ELSE 0)
             /\ jobs[j].clip_duration = lvp_cfg.pre + lvp_cfg.dur + lvp_cfg.post
             /\ jobs[j].clip_start = (IF offset - lvp_cfg.pre > 0 THEN offset - lvp_cfg.pre ELSE 0)

\* A job at the encoder whose match started before the recording did, with a buffer.
C4_Witness ==
  \E j \in 1..Len(jobs) :
    /\ jobs[j].st = "ffmpeg"
    /\ jobs[j].T < jobs[j].rstart
    /\ lvp_cfg.pre > 0
    /\ jobs[j].clip_start = 0

\* C5: the output path a job takes to the encoder has the base name made of its match
\* name, field and start second; it is the base name itself when the directory has no
\* such file, and otherwise the base name with the suffix _k for the smallest k >= 1
\* that no file of the directory carries.
C5_SmallestFreeSuffix ==
  [][\A j \in 1..Len(jobs) :
       (jobs[j].st = "sleeping" /\ jobs'[j].st = "ffmpeg")
         => LET base == <<jobs[j].name, jobs[j].field, jobs[j].T>>
                names == FileNames(clips_dir)
                out == jobs'[j].out
            IN  /\ out.base = base
                /\ out \notin names
                /\ OutputPath(base, 0) \notin names => out.k = 0
                /\ OutputPath(base, 0) \in names
                     => /\ out.k >= 1
                        /\ \A i \in 1..(out.k - 1) : OutputPath(base, i) \in names]_vars

\* A job took the suffix _2: the base name and _1 were taken.
C5_Witness ==
  \E j \in 1..Len(jobs) : jobs[j].st = "ffmpeg" /\ jobs[j].out.k = 2

\* C6 as the specification states it: no step replaces or removes a file of the clips
\* directory, and no two jobs are at the encoder with the same output path.
C6_NeverOverwritten ==
  [][/\ \A f \in clips_dir : f \in clips_dir'
     /\ \A i \in 1..Len(jobs'), j \in 1..Len(jobs') :
          (i # j /\ jobs'[i].st = "ffmpeg" /\ jobs'[j].st = "ffmpeg")
            => jobs'[i].out # jobs'[j].out]_vars

(* ========================= properties of the relay ===================== *)
\* A registration h installs its instance in this step, having found the instance o
\* registered for its event code.
Replaces(h, o) ==
  /\ old_inst'[h] = o
  /\ o # 0
  /\ \E e \in EventCodes : instances'[e] = h /\ instances[e] # h

\* What the replacement does achieve: when the new instance is installed, the old one
\* has no future and no browser WebSocket left in its tables, no request that went to
\* it has a pending future, every browser WebSocket the replacement found is closed,
\* and the registered reply goes out on no tunnel before its instance is installed.
RelayEvictionOrder ==
  [][/\ \A h \in Tunnels, o \in Tunnels :
          Replaces(h, o)
            => /\ pending_http'[o] = {}
               /\ \A r \in Requests : rinst'[r] = o => fut'[r] # "pending"
               /\ browser_ws_connections'[o] = {}
               /\ \A w \in snap'[h] : bws'[w] = "closed"
               /\ tws'[o] = "closed"
               /\ ~registered[h]
     /\ \A h \in Tunnels :
          (registered'[h] /\ ~registered[h]) => \E e \in EventCodes : instances'[e] = h]_vars

\* C10 as the specification states it: when a registration installs its instance over
\* one that was live (its client had not closed the tunnel), no HTTP future of the old
\* instance is pending, no browser WebSocket proxied to the old instance is open, and
\* the old tunnel socket is closed with code 4010.
C10_OldInstanceTornDown ==
  [][\A h \in Tunnels, o \in Tunnels :
       (Replaces(h, o) /\ closed_by'[o] # "peer")
         => /\ \A r \in Requests : rinst'[r] = o => fut'[r] # "pending"
            /\ \A w \in BrowserWs : binst'[w] = o => bws'[w] # "open"
            /\ tws'[o] = "closed"
            /\ close_code'[o] = ReplacedCloseCode]_vars

\* C11: every entry of id_by_event names an instance id that is in instances, and the
\* instance stored under that id was registered with the entry's event code.
C11_IdByEventNeverStale ==
  \A e \in EventCodes :
    id_by_event[e] # NoId
      => /\ id_by_event[e] \in EventCodes
         /\ instances[id_by_event[e]] # 0
         /\ t_event[instances[id_by_event[e]]] = e

\* An instance that replaced another is in the registry after the replaced handler has
\* run its finally, while the other event code has an instance of its own or none.
C11_Witness ==
  \E h \in Tunnels, o \in Tunnels :
    /\ old_inst[h] = o
    /\ tpc[o] = "done"
    /\ id_by_event[t_event[h]] = t_event[h]
    /\ instances[t_event[h]] = h

\* A future is in the table of the instance its request went to, and only while the
\* request's handler waits for it; once the handler has returned, no table holds it.
NoLeakedFuture ==
  \A r \in Requests :
    /\ rpc[r] = "done" => \A h \in Tunnels : r \notin pending_http[h]
    /\ \A h \in Tunnels : r \in pending_http[h] => rinst[r] = h /\ rpc[r] = "waiting"

\* C12: every future put into an instance's pending_http is removed from it again (by
\* the matching http_response, by the cancellation of a replacement or of the tunnel's
\* end, or by the timeout), and after handle_proxy has returned no instance holds an
\* entry for its request, also when the instance was torn down in the meantime.
C12_PendingFutureNeverLeaks ==
  /\ []NoLeakedFuture
  /\ \A r \in Requests, h \in Tunnels :
       (r \in pending_http[h]) ~> (r \notin pending_http[h])

\* A handler has ended on a future that the teardown of its instance cancelled, and
\* the handler of that instance's tunnel has finished.
C12_Witness ==
  \E r \in Requests :
    /\ rpc[r] = "done"
    /\ response[r] = Aborted
    /\ tpc[rinst[r]] = "done"

\* What handle_proxy does achieve: an answer built from an http_response frame has the
\* status of a frame whose id is the request's id, whatever else arrived before it,
\* and 504 is answered only to a request whose future nothing completed.
ProxyMatchesById ==
  \A r \in Requests :
    /\ response[r].id # 0 => response[r].id = r /\ response[r] = [status |-> result[r].status, id |-> r]
    /\ response[r].status = GatewayTimeout => result[r] = NoData

\* C20 as the specification states it: a proxied request is answered 504 (no
\* http_response with its id within 30 seconds), 502 (no instance, or the tunnel send
\* failed), or with the status of the http_response whose id is the request's id.
C20_ProxiedRequestIsAnswered ==
  \A r \in Requests :
    rpc[r] = "done"
      => \/ response[r] = [status |-> GatewayTimeout, id |-> 0]
         \/ response[r] = [status |-> BadGateway, id |-> 0]
         \/ response[r].id = r /\ response[r].status \in HttpStatuses

\* The handler of tunnel o has finished, or a registration has installed its instance
\* over o's.
TunnelGone(o) ==
  \/ tpc[o] = "done"
  \/ \E h \in Tunnels : old_inst[h] = o /\ tpc[h] \in {"loop", "finally_ws", "done"}

\* C13 as the specification states it: no browser WebSocket proxied to an instance is
\* open once that instance's tunnel has terminated or been replaced, and none is open
\* after the tunnel loop has handled a ws_close or ws_error frame for its id.
C13_NoBrowserWsOutlivesTunnel ==
  /\ [](\A w \in BrowserWs : (binst[w] # 0 /\ TunnelGone(binst[w])) => bws[w] # "open")
  /\ [][\A h \in Tunnels, w \in BrowserWs :
          (TunnelWsClose(h, w) /\ binst[w] = h) => bws'[w] # "open"]_vars

(* ===================== properties of the tunnel client ================= *)
\* C14: every frame the client has sent carries the id of the relay frame whose task
\* sent it, and is of a type that answers that frame: http_response (success or 502)
\* for an http_request; ws_opened, ws_error, ws_data or ws_close for a ws_open.
C14_FramesCarryTriggerId ==
  \A fr \in c_sent :
    /\ fr.id = c_frame[fr.for].id
    /\ c_frame[fr.for].type = "http_request" => fr.type = "http_response"
    /\ c_frame[fr.for].type = "ws_open"
         => fr.type \in {"ws_opened", "ws_error", "ws_data", "ws_close"}

\* Frames of two tasks are out: the 502 reply of the first frame's task, and data
\* forwarded by the bridge of the second frame, which is still running.
C14_Witness ==
  \E a \in c_sent, b \in c_sent :
    /\ a.for = 1 /\ a.type = "http_response" /\ a.status = ProxyErrorStatus
    /\ b.for = 2 /\ b.type = "ws_data"
    /\ hpc[2] = "bridging"

\* C18: the n-th consecutive sleep after the start or after a registration lasts
\* 5, 10, 20, 40, 60, 60, ... seconds; a registration makes the next one 5 again.
C18_BackoffDoublesToCap ==
  cpc = "sleeping"
    => retry_delay = (IF c_fails = 1 THEN 5 ELSE IF c_fails = 2 THEN 10
                      ELSE IF c_fails = 3 THEN 20 ELSE IF c_fails = 4 THEN 40 ELSE 60)

\* The sixth sleep in a row, of 60 seconds, after a registration at the first attempt.
C18_Witness ==
  /\ cpc = "sleeping"
  /\ c_fails = 6
  /\ c_attempts = 7
  /\ c_answer = "registered"
  /\ retry_delay = 60

\* C19: after the answer {type:error} the client has stopped: it is not connected,
\* makes no further connection attempt and reads no further frame; the answer
\* {type:registered} makes it connected, and frames are read only by a connected
\* client whose registration was answered with registered.
C19_ErrorStopsRegisteredServes ==
  /\ [](c_answer = "error" => cpc = "ended" /\ ~c_running /\ ~c_connected)
  /\ [][/\ c_answer = "error" => c_attempts' = c_attempts /\ c_frame' = c_frame
        /\ (cpc = "registering" /\ cpc' = "loop") => c_answer' = "registered" /\ c_connected'
        /\ c_frame' # c_frame => c_connected /\ c_answer = "registered"]_vars

\* The relay refused a reconnection of a client that had served a frame before.
C19_Witness ==
  /\ c_answer = "error"
  /\ cpc = "ended"
  /\ c_attempts >= 2
  /\ c_frame[1].type # "none"

(* ====================== properties of the HTTP server ================== *)
\* The cookie is three parts whose signature is the HMAC of its first two parts under
\* the session secret, and whose second part is a number not less than the time t.
ValidCookie(c, t) ==
  /\ c.kind = "triple"
  /\ c.sig = Hmac(SessionSecret(w_password), c.instance_id, c.expiry_str)
  /\ c.expiry_str.form # "junk"
  /\ c.expiry_str.n >= t

\* The routes of the table that need a session.
SessionProtected(path) ==
  /\ path[1] \in {"admin", "api", "obs-web"}
  /\ path \notin {LoginPath, AuthPath}

\* C15: _check_auth accepts a request if and only if it comes from 127.0.0.1 or brings
\* a cookie that verifies under the session secret and has not expired; and a request
\* to a session-protected route that is not authenticated is served nothing, whether
\* it is a GET, a POST or a PUT.
C15_AuthenticatedIffLocalOrCookie ==
  w_req # NoRequest
    => LET authenticated == w_req.peer = Localhost \/ ValidCookie(w_req.cookie, w_req.at)
       IN  /\ CheckAuth(w_req.peer, w_req.cookie, w_req.at, w_password) <=> authenticated
           /\ (SessionProtected(w_req.path) /\ ~authenticated)
                => /\ w_resp.served = "none"
                   /\ w_resp.status \in {Found, Unauthorized, NotFound}

\* A remote request with the cookie a login at time 0 set is served /api/stop at the
\* last second of the cookie's life.
C15_Witness ==
  /\ w_req.peer # Localhost
  /\ w_req.cookie = MakeSessionCookie(0, w_password)
  /\ w_req.at = SessionTtl
  /\ w_req.method = "PUT"
  /\ w_resp.served = "api_stop"

\* What C16 requires of the request's cookie c: expired means refused, whatever the
\* signature; and a cookie that differs from a validly signed one in its payload only,
\* or in its signature only, is refused.
CookieRefused(c, t) ==
  /\ (c.kind = "triple" /\ ParseInt(c.expiry_str) # -1 /\ ParseInt(c.expiry_str) < t)
       => ~CheckAuth(w_req.peer, c, t, w_password)
  /\ \A i \in InstanceIds, e \in ExpiryStrs :
       LET v == [kind |-> "triple", instance_id |-> i, expiry_str |-> e,
                 sig |-> Hmac(SessionSecret(w_password), i, e)]
       IN  (/\ c.kind = "triple"
            /\ c # v
            /\ \/ c.sig = v.sig
               \/ c.instance_id = v.instance_id /\ c.expiry_str = v.expiry_str)
             => ~CheckAuth(w_req.peer, c, t, w_password)

\* C16 as the specification states it: for any request, _check_auth returns false on
\* an expired cookie and on a cookie whose payload or signature was altered.
C16_BadCookieRefusedForAnyRequest ==
  w_req # NoRequest => CookieRefused(w_req.cookie, w_req.at)

\* C16 for the requests whose cookie is looked at: a request that does not come from
\* 127.0.0.1 is refused by _check_auth when its cookie has expired, whatever its
\* signature, and when its payload or signature differs from a validly signed cookie's.
C16_BadCookieRefusedUnlessLocal ==
  (w_req # NoRequest /\ w_req.peer # Localhost) => CookieRefused(w_req.cookie, w_req.at)

\* A remote request with a cookie signed under the session secret, expired a second
\* ago, is answered 401.
C16_Witness ==
  /\ w_req.peer # Localhost
  /\ w_req.cookie.kind = "triple"
  /\ w_req.cookie.sig = Hmac(SessionSecret(w_password), w_req.cookie.instance_id, w_req.cookie.expiry_str)
  /\ w_req.cookie.expiry_str = Str(w_req.at - 1)
  /\ w_resp.status = Unauthorized

\* What _serve_clip_file does achieve: the satisfiable ranges are served as 206 with
\* the right Content-Range, length and bytes; a range starting at or after the end of
\* the file gets status 416, with bytes */N written after the response body.
RangeServed ==
  (w_req.path = ClipPath /\ w_req.method = "GET")
    => LET r == w_req.range
           N == w_file_size
       IN  /\ (r.kind = "a-b" /\ r.a <= r.b /\ r.b < N)
                => /\ w_resp.status = PartialContent
                   /\ w_resp.content_range = [first |-> r.a, last |-> r.b, total |-> N]
                   /\ w_resp.content_length = r.b - r.a + 1
                   /\ w_resp.body = SubSeq(File(N), r.a + 1, r.b + 1)
           /\ (r.kind = "a-" /\ r.a < N)
                => /\ w_resp.status = PartialContent
                   /\ w_resp.content_range = [first |-> r.a, last |-> N - 1, total |-> N]
                   /\ w_resp.content_length = N - r.a
                   /\ w_resp.body = SubSeq(File(N), r.a + 1, N)
           /\ (r.kind \in {"a-b", "a-"} /\ r.a >= N)
                => /\ w_resp.status = RangeNotSatisfiable
                   /\ w_resp.after_body = StarRange(N)

\* C17 as the specification states it: bytes=a-b with 0 <= a <= b < N is answered 206
\* with Content-Range bytes a-b/N, Content-Length b-a+1 and the bytes a..b; bytes=a-
\* sends from a to the end; a range starting at or after N is answered 416 with the
\* header Content-Range: bytes */N.
C17_RangeRequests ==
  /\ RangeServed
  /\ (w_req.path = ClipPath /\ w_req.method = "GET"
      /\ w_req.range.kind \in {"a-b", "a-"} /\ w_req.range.a >= w_file_size)
       => /\ w_resp.status = RangeNotSatisfiable
          /\ w_resp.content_range = StarRange(w_file_size)

(* ======================= properties of the sync worker ================= *)
\* What start_sync does achieve: with rsync_host or rsync_module unset it returns
\* False, starts no thread and leaves sync_running as it was.
StartFailsFast ==
  [][(StartSync /\ (~rsync_host \/ ~rsync_module))
       => (s_ret' = "false" /\ UNCHANGED <<sync_running, spc>>)]_vars

\* C21: start_sync with rsync_host or rsync_module unset fails, starts no thread and
\* leaves sync_running false; and a thread whose rsync invocation was in progress when
\* stop_sync was called starts no further invocation once that one has returned, and
\* sync_running is false when it has ended.
C21_StartFailsFastStopIsCooperative ==
  [][/\ (StartSync /\ (~rsync_host \/ ~rsync_module))
          => (s_ret' = "false" /\ UNCHANGED <<sync_running, spc>>)
     /\ \A w \in Workers :
          /\ (s_stopped[w] /\ spc[w] # "rsync") => spc'[w] # "rsync"
          /\ (s_stopped[w] /\ spc[w] # "done" /\ spc'[w] = "done") => ~sync_running']_vars

(* ===================== properties of scene configuration =============== *)
\* What configure_obs_scenes does achieve: against a switcher of the newer API that
\* fails no request, and with at most three fields, the scenes Field 1..N exist with
\* the overlay in each when it has returned True, and a second run after such a run
\* issues no creation request.
ScenesConfiguredUpToThree ==
  (cfg_ret = "true" /\ cfg_clean)
    => /\ \A i \in 1..num_fields : i \in ConfiguredScenes => (i \in o_scenes /\ i \in o_items)
       /\ cfg_second = "clean" => cfg_created = 0

\* C22: when configure_scenes has returned ok with N fields configured, a scene Field i
\* exists for every i in 1..N and holds the shared overlay; and a second run against
\* the unchanged switcher issues no scene, input or scene-item creation request.
C22_ScenesConfiguredIdempotently ==
  cfg_ret = "true"
    => /\ \A i \in 1..num_fields : i \in o_scenes /\ i \in o_items
       /\ cfg_second # "no" => cfg_created = 0

(* ===================== properties of the recording monitor ============= *)
\* C23: is_recording_available returns true if and only if the recording file exists
\* and a sample found its size strictly increased within the last 30 seconds; and
\* after every sample the queue holds no growth sample older than 30 seconds.
C23_RecordingIffGrewWithinWindow ==
  /\ r_result # "none"
       => (r_result = "true"
             <=> (r_exists /\ r_growth >= 0 /\ r_growth > r_now - GrowthWindow))
  /\ r_sampled = r_now
       => \A t \in file_growth_timestamps : t > r_now - GrowthWindow

(* ----------------- repeated directives (main loop) -------------------- *)
\* C24: a SHOW_PREVIEW or SHOW_MATCH frame whose field equals current_field makes no
\* request to the switcher and leaves current_field unchanged.
C24_RepeatedDirectiveIsSilent ==
  [][\A m \in Monitors :
       (/\ MonHandle(m)
        /\ frame[m].type \in {"SHOW_PREVIEW", "SHOW_MATCH"}
        /\ frame[m].field = current_field)
       => (scene_requests' = scene_requests /\ current_field' = current_field)]_vars

\* A directive for the field the one successful switch went to has been handled, and
\* the switcher has still been asked once.
C24_Witness ==
  /\ handled = "repeat"
  /\ current_field # NoField
  /\ scene_requests = 1

(* ------------------------- failed clip jobs --------------------------- *)
\* C25: when a clip job fails (no recording info, recording file missing, encoder
\* exit code not 0, or output file not created) index.html and the list of clips in
\* memory stay as they were, no task is scheduled in its place, and a failed job stays
\* failed: the failure is only logged.
C25_FailureLeavesIndexAlone ==
  [][\A j \in 1..Len(jobs) :
       /\ (jobs[j].st # "failed" /\ jobs'[j].st = "failed")
            => /\ index_html' = index_html
               /\ index_list' = index_list
               /\ current_match_clips' = current_match_clips
               /\ Len(jobs') = Len(jobs)
               /\ jobs'[j].log # "none"
       /\ jobs[j].st = "failed" => jobs'[j] = jobs[j]]_vars

\* One job has written its clip and the index lists it; the other has failed after
\* the encoder ran, and the index and the list are those of the first job alone.
C25_Witness ==
  \E j \in 1..Len(jobs), k \in 1..Len(jobs) :
    /\ jobs[j].st = "done"
    /\ jobs[k].st = "failed"
    /\ jobs[k].log \in {"ffmpeg failed", "failed to create clip"}
    /\ jobs[k].out # jobs[j].out
    /\ current_match_clips = <<jobs[j].out>>
    /\ jobs[k].out \notin index_html
    /\ jobs[j].out \in index_html

(* ------------------------ the regenerated index ----------------------- *)
\* The modification time of the file of that name in the directory.
MtimeOf(dir, name) == (CHOOSE f \in dir : f.name = name).mtime

\* C26: on every successful clip job the index written lists exactly the video files
\* that are in the clips directory once the clip exists, each once, newest first by
\* modification time; it lists the clip of every job completed so far, in whatever
\* order the jobs completed.
C26_IndexIsFreshScanNewestFirst ==
  [][\A j \in 1..Len(jobs) :
       (jobs[j].st # "done" /\ jobs'[j].st = "done")
       => /\ index_html' = FileNames(clips_dir')
          /\ {index_list'[i] : i \in 1..Len(index_list')} = FileNames(clips_dir')
          /\ Len(index_list') = Cardinality(clips_dir')
          /\ \A a \in 1..Len(index_list'), b \in 1..Len(index_list') :
               a < b => MtimeOf(clips_dir', index_list'[a]) >= MtimeOf(clips_dir', index_list'[b])
          /\ \A k \in 1..Len(jobs') : jobs'[k].st = "done" => jobs'[k].out \in index_html']_vars

\* Both jobs have completed, the second before the first; the index lists both clips
\* before an older file that was already there.
C26_Witness ==
  /\ Len(jobs) = 2
  /\ jobs[1].st = "done" /\ jobs[2].st = "done"
  /\ jobs[1].out # jobs[2].out
  /\ current_match_clips = <<jobs[2].out, jobs[1].out>>
  /\ Len(index_list) = 3
  /\ {index_list[1], index_list[2]} = {jobs[1].out, jobs[2].out}

(* ---------------------- per-event errors (main loop) ------------------ *)
\* C27: while running, handling a frame that is not JSON, an event of a type the loop
\* does not know, or a frame whose handling raises, leaves the monitor in its read
\* loop with its socket open and running set: the next frame is read and handled.
C27_BadFrameDoesNotEndLoop ==
  [][\A m \in Monitors :
       (/\ MonHandle(m)
        /\ running
        /\ frame[m].type \in {"NOT_JSON", "OTHER", "RAISES"})
       => /\ pc'[m] = "loop"
          /\ sock'[m] = sock[m]
          /\ sock[m] = "open"
          /\ running'
          /\ UNCHANGED <<current_field, scene_requests, jobs, ftc_websocket>>]_vars

\* After a frame whose handling raised, the monitor, still running, has read the
\* next frame from the same open socket and is about to handle it.
C27_Witness ==
  \E m \in Monitors :
    /\ handled = "raised"
    /\ running
    /\ sock[m] = "open"
    /\ pc[m] = "handle"
    /\ frame[m].type \in {"SHOW_PREVIEW", "START_MATCH"}

(* --------------- the tunnel client across connections ----------------- *)
\* The cleanup after a connection, and stop(), leave the map of local sockets empty
\* and no tunnel socket set.
CleanupClearsMap ==
  [][(c_ws # 0 /\ c_ws' = 0) => (local_ws' = {} /\ ~c_open' /\ ~c_connected')]_vars

\* C28: nothing of one connection reaches the next: every frame the client sends goes
\* out on the connection its request came in on, and every local socket in the map
\* was opened for a request of the connection that is self._ws.
C28_NothingCrossesConnections ==
  /\ \A fr \in c_sent : fr.live
  /\ \A f \in Frames : c_frame[f].id \in local_ws => c_frame[f].live

(* ------------------------ stop() of the tunnel client ----------------- *)
\* C29: once stop() has been called, whatever _connect_loop was doing, no tunnel
\* socket is open or becomes open, the client is not connected, no local socket is
\* in the map and no frame is sent to the relay.
C29_StopIsFinal ==
  [][(~c_running /\ cpc \notin {"idle", "ended"})
       => /\ ~c_open'
          /\ c_ws' = 0
          /\ ~c_connected'
          /\ local_ws' = {}
          /\ c_sent' = c_sent]_vars

(* ---------------------- /ws/status: order of snapshots ----------------- *)
\* C30: a subscriber receives the snapshots in the order of the transitions, whatever
\* threads broadcast them: no snapshot it receives is older than one it received
\* before, and when nothing is left to deliver the last one it received is the
\* current status.
C30_SnapshotsInTransitionOrder ==
  \A c \in Subscribers :
    /\ \A i \in 1..Len(ws_received[c]), j \in 1..Len(ws_received[c]) :
         i < j => ws_received[c][i] <= ws_received[c][j]
    /\ (/\ ws_state[c] = "open"
        /\ loop_calls = <<>>
        /\ \A p \in Producers : ppc[p] = "idle")
         => ws_received[c][Len(ws_received[c])] = status_version

(* ---------------- the relay: a replaced instance's cleanup ------------- *)
\* C31: an instance that is registered with its tunnel socket open stays in instances
\* and id_by_event on every step that is not a new registration: the finally of
\* another handler removes nothing of it.
C31_ReplacementSurvivesOldCleanup ==
  [][\A e \in EventCodes, h \in Tunnels :
       (/\ instances[e] = h
        /\ id_by_event[e] = e
        /\ tpc[h] = "loop"
        /\ tws[h] = "open"
        /\ tws'[h] = "open"
        /\ \A k \in Tunnels : tpc[k] = "await_reg" => tpc'[k] = "await_reg")
       => (instances'[e] = h /\ id_by_event'[e] = e)]_vars

(* --------------- the relay: one message loop per event code ------------ *)
\* A replacement has taken h out of the registry and has not yet closed its socket.
BeingEvicted(h) ==
  \E k \in Tunnels : old_inst[k] = h /\ tpc[k] \in {"evict_ws", "evict_tunnel"}

\* C32: a tunnel that is in its message loop with its socket open, and is not in the
\* course of being evicted, is the one that instances records for its event code; so
\* there is at most one per event code.
C32_LoopingTunnelIsTheRegisteredOne ==
  \A h \in Tunnels :
    (/\ tpc[h] = "loop"
     /\ tws[h] = "open"
     /\ ~BeingEvicted(h))
    => instances[t_event[h]] = h

\* C33: a tunnel client whose configuration holds the relay's shared secret is
\* eventually answered `registered` and marks itself connected.
C33_ConfiguredClientRegisters ==
  (hs_peer = "client" /\ hs_pc = "sent" /\ hs_config.tunnel_password = hs_token)
    ~> hs_connected

\* Monitor m's loop is reading the upstream stream: connected, and draining or in its
\* read loop.
Consuming(m) == sock[m] = "open" /\ pc[m] \in {"drain", "loop", "recv", "handle"}

\* C34: after any sequence of /api/start and /api/stop requests at most one monitor
\* loop is consuming the upstream stream.
C34_AtMostOneMonitorLoop ==
  \A m, k \in Monitors : (Consuming(m) /\ Consuming(k)) => m = k

\* Worker w is inside `while self.sync_running:` of _run_sync_loop.
InSyncLoop(w) == spc[w] \in {"while", "call", "rsync", "sleep"}

\* C35: after any sequence of start_sync and stop_sync calls at most one sync worker
\* is running its loop.
C35_AtMostOneSyncWorker ==
  \A w, k \in Workers : (InSyncLoop(w) /\ InSyncLoop(k)) => w = k

\* The connect loop of client c is scheduled or running and has not been told to stop.
ConnectLoopRunning(c) == k_running[c] /\ kpc[c] \in {"while", "dial", "await", "loop", "sleep"}

\* C36: at most one tunnel connect loop is running per core.
C36_AtMostOneConnectLoop ==
  \A c, d \in TunnelClients : (ConnectLoopRunning(c) /\ ConnectLoopRunning(d)) => c = d

\* C37: once the local socket for a ws_id is open and registered, every ws_data frame
\* the relay has sent for that id since its ws_open has been passed to it: none was
\* dropped while the socket was being opened.
C37_NoDataFrameDropped ==
  \A f \in Frames :
    (hpc[f] = "bridging" /\ c_frame[f].id \in local_ws) => d_delivered[f] = d_sent[f]

\* C38: after the client has handled ws_close for a ws_id, no local socket is
\* registered under that id.
C38_ClosedIdHasNoLocalSocket ==
  \A f \in Frames : ws_close_seen[f] => c_frame[f].id \notin local_ws

\* An address that is not the loopback address.
RemotePeer == CHOOSE p \in Peers : p # Localhost

\* What the local server answers to the request in hand when it arrives directly from
\* RemotePeer.
DirectResponse ==
  LET authed == CheckAuth(RemotePeer, w_req.cookie, w_req.at, w_password)
  IN  IF w_req.method = "GET" THEN DoGet(w_req, w_file_size, authed)
      ELSE DoPost(w_req, w_req.at, w_password, authed)

\* The route of the request in hand is one the handler checks the session on.
ChecksSession ==
  IF w_req.method = "GET" THEN w_req.path # LoginPath /\ GetChecksAuth(w_req.path)
  ELSE PostChecksAuth(w_req.path)

\* C39: a request to a session-protected route that arrives through the relay and the
\* tunnel is answered as the same request arriving directly from a non-loopback
\* address: without a valid session cookie it is refused.
C39_TunnelGivesNoMoreAccess ==
  (w_req.via = "tunnel" /\ ChecksSession) => w_resp = DirectResponse

\* C40: in a run started after the previous run has ended, the first SHOW_PREVIEW or
\* SHOW_MATCH frame for a mapped field asks the switcher for the scene, whatever
\* current_field the previous run left.
C40_FirstDirectiveOfRunSwitches ==
  [][\A m \in Monitors :
       (/\ MonHandle(m)
        /\ frame[m].type \in {"SHOW_PREVIEW", "SHOW_MATCH"}
        /\ frame[m].field \in field_scene_mapping
        /\ m \notin directed
        /\ obs_ws
        /\ \A k \in Monitors \ {m} : pc[k] \in {"idle", "done"})
       => scene_requests' = scene_requests + 1]_vars

====
